---- MODULE Spec2Model ----
(***************************************************************************)
(* A model of python-srecord: the sparse address space (srecord/core.py),  *)
(* its merge algorithm, the file codecs (srecord/input.py, output.py) and  *)
(* the gap filler (srecord/generator.py).                                  *)
(*                                                                         *)
(* A DataChunk is a record [base, bytes]; SparseData._data is a sequence   *)
(* of DataChunks.  Python indices are 0-based and are kept 0-based in the  *)
(* loop state (lbound, ubound); the sequences themselves are 1-based.      *)
(***************************************************************************)
EXTENDS Integers, Sequences, FiniteSets, TLC

VARIABLES
    data,             \* SparseData._data of the space under test
    collision_error,  \* SparseData.collision_error of that space
    last,             \* the last operation: its name, arguments, state before, outcome
    pc,               \* position of the scenario being run
    plan,             \* the inputs chosen for the scenario
    file,             \* the file written by an output class
    rdata             \* the result of an input class or of a generator

vars == <<data, collision_error, last, pc, plan, file, rdata>>

----------------------------------------------------------------------------
(* Bounds of the model *)

\* addresses of the core scenarios are 0 .. MaxAddr-1
MaxAddr == 6
\* longest chunk handed to add
MaxLen == 3
\* number of add and del calls made on one space
MaxOps == 3

----------------------------------------------------------------------------
(* Python helpers *)

Min(a, b) == IF a < b THEN a ELSE b
Max(a, b) == IF a > b THEN a ELSE b

\* slice.indices(): a start or stop index clipped to 0 .. n
SliceIdx(i, n) ==
    IF i < 0 THEN (IF i + n < 0 THEN 0 ELSE i + n)
    ELSE (IF i > n THEN n ELSE i)

\* s[i:j] for a unit-stride slice
PySlice(s, i, j) == SubSeq(s, SliceIdx(i, Len(s)) + 1, SliceIdx(j, Len(s)))

\* s[i:]
PySliceFrom(s, i) == SubSeq(s, SliceIdx(i, Len(s)) + 1, Len(s))

\* a slip in the slice assignment below: the chunk appended instead
SliceAssign_append(list, lb, ub, x) == Append(list, x)

\* list[lb:ub] = [x]  (an inverted slice is the empty slice at lb)
SliceAssign(list, lb, ub, x) ==
    LET lo == SliceIdx(lb, Len(list))
        hi == Max(lo, SliceIdx(ub, Len(list)))
    IN  SubSeq(list, 1, lo) \o <<x>> \o SubSeq(list, hi + 1, Len(list))

\* del list[i]
DelItem(list, i) == SubSeq(list, 1, i) \o SubSeq(list, i + 2, Len(list))

----------------------------------------------------------------------------
(* core.py: DataChunk *)

DataChunk(base_address, bytes) == [base |-> base_address, bytes |-> bytes]

start(c) == c.base

end(c) == c.base + Len(c.bytes)

\* DataChunk.__getitem__ with a unit-stride slice [i:j]
ChunkSlice(c, i, j) ==
    DataChunk(c.base + SliceIdx(i, Len(c.bytes)), PySlice(c.bytes, i, j))

\* DataChunk.__getitem__ with the slice [i:]
ChunkSliceFrom(c, i) ==
    DataChunk(c.base + SliceIdx(i, Len(c.bytes)), PySliceFrom(c.bytes, i))

----------------------------------------------------------------------------
(* core.py: SparseData._addone *)

\* a slip in the merge below: the new chunk's bytes put first
MergeLower_swapped(d, chunk) == DataChunk(start(d), chunk.bytes \o d.bytes)

\* line 132: chunk = DataChunk(d.start(), d + chunk)
MergeLower(d, chunk) == DataChunk(start(d), d.bytes \o chunk.bytes)

\* line 141: chunk = DataChunk(chunk.start(), chunk + d)
MergeUpper(chunk, d) == DataChunk(start(chunk), chunk.bytes \o d.bytes)

\* The overlap branch, lines 145-162: the local chunk is edited in place.
\* st.own says that the local name still refers to the caller's object, in
\* which case the edit is visible to the caller (st.arg follows it).
Overlap(st, d, idx) ==
    LET c == st.chunk
        st1 == IF start(c) > start(d)
               THEN LET nc == DataChunk(d.base,
                                ChunkSlice(d, 0, start(c) - start(d)).bytes \o c.bytes)
                    IN  [st EXCEPT !.chunk = nc, !.lbound = idx,
                                   !.arg = IF st.own THEN nc ELSE @]
               ELSE st
        c1 == st1.chunk
    IN  IF end(d) > end(c1)
        THEN LET nc == DataChunk(c1.base,
                         c1.bytes \o ChunkSliceFrom(d, end(c1) - end(d)).bytes)
             IN  [st1 EXCEPT !.chunk = nc, !.ubound = idx,
                             !.arg = IF st1.own THEN nc ELSE @]
        ELSE st1

\* The scan of lines 124-162 from 0-based position idx on.
RECURSIVE AddLoop(_, _, _, _)
AddLoop(list, ce, idx, st) ==
    IF idx >= Len(list) THEN st
    ELSE
      LET d == list[idx + 1]
          c == st.chunk
      IN  IF end(d) < start(c) THEN
              AddLoop(list, ce, idx + 1, [st EXCEPT !.lbound = idx + 1])
          ELSE IF end(d) = start(c) THEN
              AddLoop(list, ce, idx + 1,
                      [st EXCEPT !.lbound = idx,
                                 !.chunk = MergeLower(d, c),
                                 !.own = FALSE])
          ELSE IF start(d) > end(c) THEN
              [st EXCEPT !.ubound = idx]
          ELSE IF start(d) = end(c) THEN
              [st EXCEPT !.chunk = MergeUpper(c, d),
                         !.ubound = idx + 1,
                         !.own = FALSE]
          ELSE IF ce THEN
              [st EXCEPT !.err = "CollisionError"]
          ELSE
              AddLoop(list, ce, idx + 1, Overlap(st, d, idx))

\* _addone(chunk) on the list `list` under collision policy ce.
\* Result: the new list, the error raised ("" for none) and the caller's
\* chunk object as it is after the call.
_addone(list, ce, chunk) ==
    IF Len(chunk.bytes) = 0 THEN [data |-> list, err |-> "", arg |-> chunk]
    ELSE
      LET st == AddLoop(list, ce, 0,
                        [chunk |-> chunk, lbound |-> 0, ubound |-> Len(list),
                         own |-> TRUE, arg |-> chunk, err |-> ""])
      IN  IF st.err # "" THEN [data |-> list, err |-> st.err, arg |-> st.arg]
          ELSE [data |-> SliceAssign(list, st.lbound, st.ubound, st.chunk),
                err |-> "", arg |-> st.arg]

\* SparseData.add(*args): _addone on each argument in turn; an exception
\* leaves the loop with the earlier arguments already inserted.
RECURSIVE add(_, _, _)
add(list, ce, args) ==
    IF args = <<>> THEN [data |-> list, err |-> ""]
    ELSE LET r == _addone(list, ce, Head(args))
         IN  IF r.err # "" THEN [data |-> r.data, err |-> r.err]
             ELSE add(r.data, ce, Tail(args))

\* SparseData.start() / SparseData.end(): None is modelled as -1
SparseStart(list) == IF Len(list) = 0 THEN -1 ELSE start(list[1])
SparseEnd(list) == IF Len(list) = 0 THEN -1 ELSE end(list[Len(list)])

----------------------------------------------------------------------------
(* Views of a region list used to state the claims *)

\* the (address, byte) pairs held by one chunk
ChunkCells(c) == { <<c.base + i - 1, c.bytes[i]>> : i \in 1..Len(c.bytes) }

\* every (address, byte) pair held by some region of the list
Cells(list) == UNION { ChunkCells(list[i]) : i \in 1..Len(list) }

\* the populated addresses
Addrs(list) == { p[1] : p \in Cells(list) }

ChunkAddrs(c) == { c.base + i - 1 : i \in 1..Len(c.bytes) }

\* sorted strictly ascending, no empty region, neither overlapping nor adjacent
WellFormed(list) ==
    /\ \A i \in 1..Len(list) : Len(list[i].bytes) > 0
    /\ \A i \in 1..Len(list) - 1 :
          /\ start(list[i]) < start(list[i + 1])
          /\ end(list[i]) < start(list[i + 1])

----------------------------------------------------------------------------
(* Scenario 1 (Spec): any sequence of add, del and policy changes *)

\* the bytes of a test chunk: tag, tag+1, ... so that origin and position show
TagBytes(tag, n) == [i \in 1..n |-> tag + i - 1]

\* the chunks the k-th call may add: every start and length, bytes tagged by k
CoreChunks(k) ==
    { DataChunk(a, TagBytes(16 * k, n)) : a \in 0..MaxAddr - 1, n \in 1..MaxLen }

NoOp == [op |-> "init", chunk |-> DataChunk(0, <<>>), before |-> <<>>,
         ce |-> TRUE, err |-> "", key |-> 0]

Init ==
    /\ data = <<>>
    /\ collision_error \in BOOLEAN
    /\ last = NoOp
    /\ pc = "core"
    /\ plan = 0
    /\ file = <<>>
    /\ rdata = <<>>

\* sdata.add(chunk); rdata is the caller's chunk object after the call
Add(chunk) ==
    /\ plan < MaxOps
    /\ end(chunk) <= MaxAddr
    /\ plan' = plan + 1
    /\ LET r == _addone(data, collision_error, chunk)
       IN  /\ data' = r.data
           /\ rdata' = r.arg
           /\ last' = [op |-> "add", chunk |-> chunk, before |-> data,
                       ce |-> collision_error, err |-> r.err, key |-> 0]
    /\ UNCHANGED <<collision_error, pc, file>>

\* del sdata[key]
Del(key) ==
    /\ plan < MaxOps
    /\ key < Len(data)
    /\ plan' = plan + 1
    /\ data' = DelItem(data, key)
    /\ last' = [op |-> "del", chunk |-> DataChunk(0, <<>>), before |-> data,
                ce |-> collision_error, err |-> "", key |-> key]
    /\ rdata' = <<>>
    /\ UNCHANGED <<collision_error, pc, file>>

\* sdata.collision_error = boolean
SetCollisionError(boolean) ==
    /\ collision_error # boolean
    /\ collision_error' = boolean
    /\ last' = [op |-> "set", chunk |-> DataChunk(0, <<>>), before |-> data,
                ce |-> boolean, err |-> "", key |-> 0]
    /\ rdata' = <<>>
    /\ UNCHANGED <<data, pc, plan, file>>

Next ==
    \/ \E chunk \in CoreChunks(plan + 1) : Add(chunk)
    \/ \E key \in 0..MaxOps - 1 : Del(key)
    \/ \E boolean \in BOOLEAN : SetCollisionError(boolean)

Spec == Init /\ [][Next]_vars

----------------------------------------------------------------------------
(* Scenario 2 (SpecAdj): a run of byte-adjacent chunks added in any order *)

\* d neither touches nor overlaps c
Apart(d, c) == end(d) < start(c) \/ start(d) > end(c)

\* the arguments of the constructor: up to two chunks
BaseChunks(k) ==
    { c \in { DataChunk(a, TagBytes(64 + 16 * k, n)) :
                a \in 0..MaxAddr - 1, n \in 1..MaxLen } : end(c) <= MaxAddr }

BaseArgs ==
    {<<>>} \cup { <<c>> : c \in BaseChunks(1) }
           \cup { <<c1, c2>> : c1 \in BaseChunks(1), c2 \in BaseChunks(2) }

\* runs of two or three chunks, each ending where the next one starts
RunFrom(a, lens) ==
    [i \in 1..Len(lens) |->
        DataChunk(a + (IF i > 1 THEN lens[1] ELSE 0) + (IF i > 2 THEN lens[2] ELSE 0),
                  TagBytes(16 * i, lens[i]))]

RunLens ==
    { <<n1, n2>> : n1 \in 1..MaxLen, n2 \in 1..MaxLen }
        \cup { <<n1, n2, n3>> : n1 \in 1..MaxLen, n2 \in 1..MaxLen, n3 \in 1..MaxLen }

AdjRuns == { RunFrom(a, lens) : a \in 0..MaxAddr - 1, lens \in RunLens }

Perms(n) == { f \in [1..n -> 1..n] : \A i, j \in 1..n : f[i] = f[j] => i = j }

\* the one region the run should become
Merged(run) ==
    DataChunk(start(run[1]),
              IF Len(run) = 2 THEN run[1].bytes \o run[2].bytes
              ELSE run[1].bytes \o run[2].bytes \o run[3].bytes)

AdjInit ==
    /\ collision_error \in BOOLEAN
    /\ \E args \in BaseArgs :
         LET b == add(<<>>, collision_error, args)
         IN  /\ b.err = ""
             /\ data = b.data
             /\ \E run \in AdjRuns :
                  /\ end(run[Len(run)]) <= MaxAddr
                  /\ \A i \in 1..Len(data), j \in 1..Len(run) : Apart(data[i], run[j])
                  /\ \E order \in Perms(Len(run)) :
                       plan = [base |-> data, run |-> run,
                               todo |-> [i \in 1..Len(run) |-> run[order[i]]]]
    /\ last = NoOp
    /\ pc = "adjacent"
    /\ file = <<>>
    /\ rdata = <<>>

\* sdata.add(chunk) for the next chunk of the run
AddNext ==
    /\ pc = "adjacent"
    /\ plan.todo # <<>>
    /\ LET chunk == Head(plan.todo)
           r == _addone(data, collision_error, chunk)
       IN  /\ data' = r.data
           /\ last' = [op |-> "add", chunk |-> chunk, before |-> data,
                       ce |-> collision_error, err |-> r.err, key |-> 0]
           /\ plan' = [plan EXCEPT !.todo = Tail(@)]
           /\ pc' = IF Len(plan.todo) = 1 \/ r.err # "" THEN "done" ELSE "adjacent"
    /\ UNCHANGED <<collision_error, file, rdata>>

AdjNext == AddNext

SpecAdj == AdjInit /\ [][AdjNext]_vars

\* C4: byte-adjacent chunks A, B (A.end = B.start) added in either order to
\* a space that neither touches nor overlaps them become exactly one region
\* [A.start, B.end) holding A's bytes then B's; a chunk that exactly fills
\* the gap between a lower and an upper neighbour makes the three one
\* region.  The other regions stay as they were.
C4_AdjacentMerge ==
    pc = "done"
        => /\ last.err = ""
           /\ \E i \in 1..Len(data) :
                /\ data[i] = Merged(plan.run)
                /\ DelItem(data, i - 1) = plan.base

\* a three-chunk run whose middle chunk is added last, beside another region
C4_Witness ==
    /\ pc = "done"
    /\ Len(plan.run) = 3
    /\ last.chunk = plan.run[2]
    /\ Len(plan.base) > 0
    /\ Len(data) = Len(plan.base) + 1

----------------------------------------------------------------------------
(* Scenario 3 (SpecOrder): separate chunks added to an empty space in any order *)

\* the chunk of n bytes at a, its bytes tagged by its address
Piece(a, n) == DataChunk(a, TagBytes(16 * (a + 1), n))

Pieces == { Piece(a, n) : a \in 0..MaxAddr - 1, n \in 1..MaxLen }

\* sets of up to three chunks, pairwise disjoint and pairwise not adjacent
PieceSets ==
    { S \in { {c1, c2, c3} : c1 \in Pieces, c2 \in Pieces, c3 \in Pieces } :
        /\ \A c \in S : end(c) <= MaxAddr
        /\ \A c1, c2 \in S : c1 # c2 => Apart(c1, c2) }

\* the chunks of S in ascending address order
RECURSIVE Ascending(_)
Ascending(S) ==
    IF S = {} THEN <<>>
    ELSE LET c == CHOOSE x \in S : \A y \in S : start(x) <= start(y)
         IN  <<c>> \o Ascending(S \ {c})

OrderInit ==
    /\ collision_error \in BOOLEAN
    /\ data = <<>>
    /\ \E S \in PieceSets : plan = [all |-> S, todo |-> S]
    /\ last = NoOp
    /\ pc = "order"
    /\ file = <<>>
    /\ rdata = <<>>

\* sdata.add(chunk) for any chunk not yet added
AddAny(chunk) ==
    /\ pc = "order"
    /\ chunk \in plan.todo
    /\ LET r == _addone(data, collision_error, chunk)
       IN  /\ data' = r.data
           /\ last' = [op |-> "add", chunk |-> chunk, before |-> data,
                       ce |-> collision_error, err |-> r.err, key |-> 0]
    /\ plan' = [plan EXCEPT !.todo = @ \ {chunk}]
    /\ UNCHANGED <<collision_error, pc, file, rdata>>

OrderNext == \E chunk \in Pieces : AddAny(chunk)

SpecOrder == OrderInit /\ [][OrderNext]_vars

\* C5: pairwise disjoint, pairwise non-adjacent non-empty chunks added to an
\* empty space give the same final list whatever the order: the chunks
\* themselves in ascending address order.
C5_OrderIndependent ==
    (pc = "order" /\ plan.todo = {})
        => last.err = "" /\ data = Ascending(plan.all)

\* three chunks, the lowest one added last
C5_Witness ==
    /\ pc = "order"
    /\ plan.todo = {}
    /\ Cardinality(plan.all) = 3
    /\ Len(data) = 3
    /\ last.chunk = data[1]

----------------------------------------------------------------------------
(* Text of the record files.  A file is a sequence of lines; an S-record   *)
(* line is its type digit and the hex digits that follow it, a HEX record  *)
(* is the hex digits that follow the colon.  A hex digit is its value.     *)

\* '{0:02X}'.format(x): at least two hex digits, more when x > 0xFF
RECURSIVE HexDigits(_)
HexDigits(x) == IF x < 16 THEN <<x>> ELSE HexDigits(x \div 16) \o <<x % 16>>

Format02X(x) == IF x < 16 THEN <<0, x>> ELSE HexDigits(x)

\* ''.join('{0:02X}'.format(x) for x in values)
RECURSIVE JoinHex(_)
JoinHex(values) ==
    IF values = <<>> THEN <<>>
    ELSE Format02X(Head(values)) \o JoinHex(Tail(values))

\* int(digits, 16)
RECURSIVE IntHex(_)
IntHex(digits) ==
    IF digits = <<>> THEN 0
    ELSE 16 * IntHex(SubSeq(digits, 1, Len(digits) - 1)) + digits[Len(digits)]

\* bytearray(int(h[i:i+2], 16) for i in range(0, len(h), 2))
RECURSIVE HexPairs(_)
HexPairs(h) ==
    IF h = <<>> THEN <<>>
    ELSE IF Len(h) = 1 THEN <<IntHex(h)>>
    ELSE <<IntHex(SubSeq(h, 1, 2))>> \o HexPairs(SubSeq(h, 3, Len(h)))

\* sum(values, first)
RECURSIVE Sum(_, _)
Sum(values, first) ==
    IF values = <<>> THEN first ELSE Sum(Tail(values), first + Head(values))

\* 256 ** n for n in 0 .. 3
Pow256(n) == IF n = 0 THEN 1 ELSE IF n = 1 THEN 256 ELSE IF n = 2 THEN 65536 ELSE 16777216

\* x > 256 ** n, computed without forming 256 ** 4
Above256Pow(x, n) ==
    \/ x \div 256 > Pow256(n - 1)
    \/ x \div 256 = Pow256(n - 1) /\ x % 256 > 0

\* core.iterate_count: the bytes in lists of up to n
RECURSIVE iterate_count(_, _)
iterate_count(bytes, n) ==
    IF bytes = <<>> \/ n <= 0 THEN <<>>
    ELSE <<SubSeq(bytes, 1, Min(n, Len(bytes)))>>
            \o iterate_count(SubSeq(bytes, n + 1, Len(bytes)), n)

----------------------------------------------------------------------------
(* output.py: SrecOutput *)

None == -1

\* SrecOutput.__init__, lines 83-93: the address width, 0 for an error
AutoAddressBytes(list, address_bytes) ==
    IF address_bytes = None THEN
        IF SparseEnd(list) <= 65535 THEN 2
        ELSE IF SparseEnd(list) <= 16777215 THEN 3
        ELSE 4
    ELSE IF address_bytes \in {2, 3, 4} THEN address_bytes
    ELSE 0

\* the loop of _make_bigendian: a[pos] = x & 0xFF; pos -= 1; x >>= 8.
\* A negative pos indexes from the end; below -len(a) it is an IndexError.
RECURSIVE BigEndianLoop(_, _, _)
BigEndianLoop(a, pos, x) ==
    IF x <= 0 THEN [a |-> a, err |-> ""]
    ELSE IF pos < -Len(a) THEN [a |-> a, err |-> "IndexError"]
    ELSE LET at == IF pos < 0 THEN pos + Len(a) + 1 ELSE pos + 1
         IN  BigEndianLoop([a EXCEPT ![at] = x % 256], pos - 1, x \div 256)

\* SrecOutput._make_bigendian
_make_bigendian(address_bytes, x) ==
    BigEndianLoop([i \in 1..address_bytes |-> 0], address_bytes - 1, x)

\* a slip in the checksum below: the byte count left out of the sum
_make_srec_nocount(d) ==
    JoinHex(<<Len(d) + 1>> \o d \o <<255 - (Sum(d, 0) % 256)>>)

\* SrecOutput._make_srec: count, bytes and ~sum & 0xFF as hex text
_make_srec(d) ==
    LET data_len == Len(d) + 1
        checksum == 255 - (Sum(d, data_len) % 256)
    IN  JoinHex(<<data_len>> \o d \o <<checksum>>)

SrecLine(stype, hex) == [stype |-> stype, hex |-> hex]

\* lines 165-170 for one chunk: one data record per list of iterate_count
RECURSIVE SrecChunkLines(_, _, _)
SrecChunkLines(address_bytes, addr, lists) ==
    IF lists = <<>> THEN <<>>
    ELSE LET a == _make_bigendian(address_bytes, addr).a
         IN  <<SrecLine(address_bytes - 1, _make_srec(a \o Head(lists)))>>
                \o SrecChunkLines(address_bytes, addr + Len(Head(lists)), Tail(lists))

RECURSIVE SrecDataLines(_, _, _)
SrecDataLines(list, address_bytes, bytes_per_line) ==
    IF list = <<>> THEN <<>>
    ELSE SrecChunkLines(address_bytes, start(Head(list)),
                        iterate_count(Head(list).bytes, bytes_per_line))
            \o SrecDataLines(Tail(list), address_bytes, bytes_per_line)

\* SrecOutput(sdata, filename, address_bytes, header, start_address,
\* bytes_per_line): the constructor and write().  header is a byte
\* sequence (<<>> for none), start_address an address or None.
\* Comparing the end() of an empty space, None, with a number is a TypeError.
SrecOutput(list, address_bytes, header, start_address, bytes_per_line) ==
    IF address_bytes = None /\ Len(list) = 0 THEN [err |-> "TypeError", lines |-> <<>>]
    ELSE
      LET ab == AutoAddressBytes(list, address_bytes)
      IN  IF ab = 0 THEN [err |-> "ValueError", lines |-> <<>>]
          ELSE IF Len(list) = 0 THEN [err |-> "TypeError", lines |-> <<>>]
          ELSE IF Above256Pow(SparseEnd(list), ab) THEN [err |-> "ValueError", lines |-> <<>>]
          ELSE
            LET head == IF header # <<>>
                        THEN <<SrecLine(0, _make_srec(<<48, 48, 48, 48>> \o header))>>
                        ELSE <<>>
                body == SrecDataLines(list, ab, bytes_per_line)
                sa == _make_bigendian(ab, start_address)
            IN  IF start_address = None THEN [err |-> "", lines |-> head \o body]
                ELSE IF sa.err # "" THEN [err |-> sa.err, lines |-> head \o body]
                ELSE [err |-> "",
                      lines |-> head \o body \o <<SrecLine(9 + 2 - ab, _make_srec(sa.a))>>]

----------------------------------------------------------------------------
(* input.py: SrecInput *)

\* _read_big_endian
RECURSIVE _read_big_endian(_)
_read_big_endian(bytes) ==
    IF bytes = <<>> THEN 0
    ELSE 256 * _read_big_endian(SubSeq(bytes, 1, Len(bytes) - 1)) + bytes[Len(bytes)]

\* the reader's options as SrecInput.__init__ defaults them
SrecDefaults ==
    [force_good_checksum |-> TRUE, force_good_bytecount |-> TRUE,
     force_valid_recordcount |-> TRUE, force_all_records |-> FALSE]

\* the regular expression of line 117: a known type digit, two hex digits,
\* one or more hex digits, two hex digits
SrecMatches(line) == line.stype \in {0, 1, 2, 3, 5, 7, 8, 9} /\ Len(line.hex) >= 5

\* a slip in the checksum below: the byte count left out of the sum
block_checksum_nocount(blockdata, bytecount) == 255 - (Sum(blockdata, 0) % 256)

\* line 133: (~sum(blockdata, bytecount + 1)) & 0xFF
block_checksum(blockdata, bytecount) == 255 - (Sum(blockdata, bytecount + 1) % 256)

\* lines 117-168 for one line; st is the reader's state
SrecReadLine(st, line, opts, ce) ==
    IF ~SrecMatches(line) THEN
        IF opts.force_all_records THEN [st EXCEPT !.err = "InvalidRecord"] ELSE st
    ELSE
      LET S == line.stype
          n == Len(line.hex)
          bytecount == IntHex(SubSeq(line.hex, 1, 2)) - 1
          blockdata == HexPairs(SubSeq(line.hex, 3, n - 2))
          checksum == IntHex(SubSeq(line.hex, n - 1, n))
      IN  IF opts.force_good_bytecount /\ Len(blockdata) # bytecount THEN
              [st EXCEPT !.err = "InvalidRecord"]
          ELSE IF opts.force_good_checksum
                    /\ checksum # block_checksum(blockdata, bytecount) THEN
              [st EXCEPT !.err = "InvalidRecord"]
          ELSE IF S = 0 THEN
              [st EXCEPT !.header = Append(@, PySliceFrom(blockdata, 2))]
          ELSE IF S \in {1, 2, 3} THEN
              LET address_bytes == S + 1
                  address == _read_big_endian(PySlice(blockdata, 0, address_bytes))
                  r == _addone(st.data, ce,
                               DataChunk(address, PySliceFrom(blockdata, address_bytes)))
              IN  [st EXCEPT !.record_count = @ + 1, !.data = r.data, !.err = r.err]
          ELSE IF S = 5 THEN
              IF opts.force_valid_recordcount
                    /\ _read_big_endian(blockdata) # st.record_count
              THEN [st EXCEPT !.err = "InvalidRecord"]
              ELSE st
          ELSE [st EXCEPT !.startAddress = _read_big_endian(blockdata)]

RECURSIVE SrecReadLines(_, _, _, _)
SrecReadLines(st, lines, opts, ce) ==
    IF lines = <<>> \/ st.err # "" THEN st
    ELSE SrecReadLines(SrecReadLine(st, Head(lines), opts, ce), Tail(lines), opts, ce)

\* SrecInput.read: ce is the process-wide collision_error the new
\* SparseData() takes
SrecInput(lines, opts, ce) ==
    SrecReadLines([data |-> <<>>, header |-> <<>>, startAddress |-> None,
                   record_count |-> 0, err |-> ""], lines, opts, ce)

----------------------------------------------------------------------------
(* output.py: HexOutput *)

\* a slip in the record below: the address bytes in little-endian order
_make_record_swapped(address, type, bytes) ==
    LET record == <<Len(bytes), address % 256, address \div 256, type>> \o bytes
        checksum == (256 - (Sum(record, 0) % 256)) % 256
    IN  JoinHex(record \o <<checksum>>)

\* HexOutput._make_record: the hex digits after the colon
_make_record(address, type, bytes) ==
    LET record == <<Len(bytes), address \div 256, address % 256, type>> \o bytes
        checksum == (256 - (Sum(record, 0) % 256)) % 256
    IN  JoinHex(record \o <<checksum>>)

\* Addresses of 2^31 and more do not fit the integers of the checker.  A
\* space that lies that high is held as a list whose addresses are relative
\* to `page` blocks of 64 KiB: address = page * 65536 + base.  The writer
\* only splits an address into address >> 16 and address & 0xFFFF, which
\* are page + (base >> 16) and base & 0xFFFF.

\* a slip in the clipping below: the end left where bytes_per_line put it
ClipEnd_never(s0, e1) == e1

\* lines 228-231: if eh != sh: end = (start | 0xFFFF) + 1
ClipEnd(s0, e1) ==
    LET sh == s0 \div 65536
        eh == e1 \div 65536
    IN  IF eh # sh THEN (s0 \div 65536) * 65536 + 65535 + 1 ELSE e1

\* HexOutput._chunky from the position `e` (the loop variable end) on:
\* the sequence of (highaddr, lowaddr, data) it yields
RECURSIVE ChunkyFrom(_, _, _, _)
ChunkyFrom(page, dc, bytes_per_line, e) ==
    IF ~(e < end(dc)) THEN <<>>
    ELSE
      LET s0 == e
          e1 == Min(end(dc), s0 + bytes_per_line)
          sh == page + s0 \div 65536
          e2 == ClipEnd(s0, e1)
          offset == start(dc)
      IN  <<[h |-> sh, addr |-> s0 % 65536,
             data |-> ChunkSlice(dc, s0 - offset, e2 - offset).bytes]>>
            \o ChunkyFrom(page, dc, bytes_per_line, e2)

_chunky(page, dc, bytes_per_line) == ChunkyFrom(page, dc, bytes_per_line, start(dc))

\* a slip in the test below: a high address issued before the first record only
HighChanged_first(h, high) == high = None

\* line 247: if h != high
HighChanged(h, high) == h # high

\* lines 246-254 for the pieces of one chunk; high is the last high
\* address issued (None before the first)
RECURSIVE HexPieceLines(_, _)
HexPieceLines(pieces, high) ==
    IF pieces = <<>> THEN [lines |-> <<>>, high |-> high]
    ELSE
      LET p == Head(pieces)
          ela == IF HighChanged(p.h, high)
                 THEN <<_make_record(0, 4, <<p.h \div 256, p.h % 256>>)>>
                 ELSE <<>>
          rest == HexPieceLines(Tail(pieces), p.h)
      IN  [lines |-> ela \o <<_make_record(p.addr, 0, p.data)>> \o rest.lines,
           high |-> rest.high]

RECURSIVE HexDataLines(_, _, _, _)
HexDataLines(page, list, bytes_per_line, high) ==
    IF list = <<>> THEN <<>>
    ELSE LET r == HexPieceLines(_chunky(page, Head(list), bytes_per_line), high)
         IN  r.lines \o HexDataLines(page, Tail(list), bytes_per_line, r.high)

\* HexOutput(sdata, filename, start_address, bytes_per_line).write() for
\* the space that lies `page` blocks of 64 KiB above the addresses of list.
\* The message of line 239 reads self.address_bytes, which a HexOutput
\* does not have: the error raised there is an AttributeError.
HexOutputAt(page, list, start_address, bytes_per_line) ==
    IF Len(list) = 0 THEN [err |-> "TypeError", lines |-> <<>>]
    ELSE IF page + SparseEnd(list) \div 65536 >= 65536 THEN
        [err |-> "AttributeError", lines |-> <<>>]
    ELSE
      LET body == HexDataLines(page, list, bytes_per_line, None)
          sa == start_address
          entry == IF sa # None
                   THEN <<_make_record(0, 5, <<(sa \div 16777216) % 256, (sa \div 65536) % 256,
                                               (sa \div 256) % 256, sa % 256>>)>>
                   ELSE <<>>
      IN  [err |-> "", lines |-> body \o entry \o <<_make_record(0, 1, <<>>)>>]

\* the same for a space below 2^31
HexOutput(list, start_address, bytes_per_line) ==
    HexOutputAt(0, list, start_address, bytes_per_line)

----------------------------------------------------------------------------
(* input.py: HexInput *)

\* the reader's options as HexInput.__init__ defaults them
HexDefaults ==
    [force_good_checksum |-> TRUE, force_good_bytecount |-> TRUE, eof_error |-> TRUE]

\* HexInput._resetStates and the fresh SparseData of read(); startcs and
\* startpc are attributes that only the start records assign
HexReset(st) == [st EXCEPT !.baseaddr = 0, !.eof = FALSE, !.data = <<>>, !.err = ""]

HexNew ==
    [data |-> <<>>, baseaddr |-> 0, eof |-> FALSE, startcs |-> None,
     startpc |-> None, err |-> ""]

\* the parser table, lines 195-229, applied to the record rec
HexDispatch(st, rec, ce) ==
    IF rec.type = 0 THEN
        LET r == _addone(st.data, ce, DataChunk(st.baseaddr + rec.addr, rec.data))
        IN  [st EXCEPT !.data = r.data, !.err = r.err]
    ELSE IF rec.type = 1 THEN [st EXCEPT !.eof = TRUE]
    ELSE IF rec.type = 2 THEN
        IF rec.dlen # 2 THEN [st EXCEPT !.err = "InvalidRecord"]
        ELSE IF Len(rec.data) < 2 THEN [st EXCEPT !.err = "IndexError"]
        ELSE [st EXCEPT !.baseaddr = rec.data[1] * 4096 + rec.data[2] * 16]
    ELSE IF rec.type = 3 THEN
        IF rec.dlen # 4 THEN [st EXCEPT !.err = "InvalidRecord"]
        ELSE IF Len(rec.data) < 4 THEN [st EXCEPT !.err = "IndexError"]
        ELSE [st EXCEPT !.startcs = rec.data[1] * 256 + rec.data[2],
                        !.startpc = rec.data[3] * 256 + rec.data[4]]
    ELSE IF rec.type = 4 THEN
        IF rec.dlen # 2 THEN [st EXCEPT !.err = "InvalidRecord"]
        ELSE IF Len(rec.data) < 2 THEN [st EXCEPT !.err = "IndexError"]
        ELSE [st EXCEPT !.baseaddr = rec.data[1] * 16777216 + rec.data[2] * 65536]
    ELSE IF rec.type = 5 THEN
        IF rec.dlen # 4 THEN [st EXCEPT !.err = "InvalidRecord"]
        ELSE IF Len(rec.data) < 4 THEN [st EXCEPT !.err = "IndexError"]
        ELSE [st EXCEPT !.startpc = rec.data[1] * 16777216 + rec.data[2] * 65536
                                      + rec.data[3] * 256 + rec.data[4]]
    ELSE [st EXCEPT !.err = "KeyError"]

\* a slip in the test below: records after the EOF record are let through
PastEof_never(st, opts) == FALSE

\* line 255: self._eof_error and self._eof
PastEof(st, opts) == opts.eof_error /\ st.eof

\* lines 252-275 for one record of the split text
HexReadRecord(st, record, opts, ce) ==
    IF record = <<>> THEN st
    ELSE IF PastEof(st, opts) THEN [st EXCEPT !.err = "InvalidRecord"]
    ELSE IF Len(record) % 2 = 1 THEN [st EXCEPT !.err = "ValueError"]
    ELSE
      LET b == HexPairs(record)
      IN  IF Len(b) < 4 THEN [st EXCEPT !.err = "IndexError"]
          ELSE
            LET rec == [dlen |-> b[1], addr |-> b[2] * 256 + b[3], type |-> b[4],
                        data |-> PySlice(b, 4, -1), cksm |-> b[Len(b)]]
            IN  IF opts.force_good_checksum /\ Sum(b, 0) % 256 # 0 THEN
                    [st EXCEPT !.err = "InvalidRecord"]
                ELSE IF opts.force_good_bytecount /\ Len(rec.data) # rec.dlen THEN
                    [st EXCEPT !.err = "InvalidRecord"]
                ELSE HexDispatch(st, rec, ce)

RECURSIVE HexReadRecords(_, _, _, _)
HexReadRecords(st, records, opts, ce) ==
    IF records = <<>> \/ st.err # "" THEN st
    ELSE HexReadRecords(HexReadRecord(st, Head(records), opts, ce),
                        Tail(records), opts, ce)

\* HexInput.read on a reader in state st
HexInput(st, records, opts, ce) == HexReadRecords(HexReset(st), records, opts, ce)

----------------------------------------------------------------------------
(* output.py: BinaryOutput, input.py: BinaryInput *)

\* BinaryOutput.write: the bytes of the file.  With no region the file is
\* opened and sdata[0] raises IndexError.
BinaryOutput(list) ==
    IF Len(list) > 1 THEN [err |-> "NonContiguousError", lines |-> <<>>]
    ELSE IF Len(list) = 0 THEN [err |-> "IndexError", lines |-> <<>>]
    ELSE [err |-> "", lines |-> list[1].bytes]

\* a slip in the reader below: the file read as no data at all
BinaryInput_empty(bytes, ce) == [data |-> <<>>, err |-> ""]

\* BinaryInput.read: SparseData(DataChunk(0, f.read()))
BinaryInput(bytes, ce) ==
    LET r == add(<<>>, ce, <<DataChunk(0, bytes)>>)
    IN  [data |-> r.data, err |-> r.err]

----------------------------------------------------------------------------
(* Scenario 4 (SpecFile): a space is written to a file and read back *)

\* n bytes counting up from t, wrapping at 0xFF
ByteSeq(t, n) == [i \in 1..n |-> (t + i - 1) % 256]

\* start addresses at and around the 16-bit and 24-bit limits
FileStarts == {0, 65534, 65536, 16777214}

FileChunks(t) ==
    { DataChunk(a, ByteSeq(t, n)) : a \in FileStarts, n \in 1..MaxLen }

\* the arguments of the constructor: up to two chunks
FileArgs ==
    {<<>>} \cup { <<c>> : c \in FileChunks(254) }
           \cup { <<c1, c2>> : c1 \in FileChunks(254), c2 \in FileChunks(7) }

\* bytes_per_line: a short line and the default
LineSizes == {2, 32}

\* plan.setting is the process-wide collision_error of settings.py, which
\* the SparseData() of a reader takes; collision_error is the policy the
\* space under test was constructed with.
FileInit ==
    /\ collision_error \in BOOLEAN
    /\ \E args \in FileArgs :
         LET b == add(<<>>, collision_error, args)
         IN  b.err = "" /\ data = b.data
    /\ \E setting \in BOOLEAN :
         plan = [setting |-> setting, address_bytes |-> None, bytes_per_line |-> 0]
    /\ last = NoOp
    /\ pc = "src"
    /\ file = [err |-> "", lines |-> <<>>]
    /\ rdata = HexNew

\* SrecOutput(sdata, filename, address_bytes=..., bytes_per_line=...)
SrecWrite(address_bytes, bytes_per_line) ==
    /\ pc = "src"
    /\ file' = SrecOutput(data, address_bytes, <<>>, None, bytes_per_line)
    /\ plan' = [plan EXCEPT !.address_bytes = address_bytes,
                            !.bytes_per_line = bytes_per_line]
    /\ pc' = "srec"
    /\ UNCHANGED <<data, collision_error, last, rdata>>

\* SrecInput(filename)
SrecRead ==
    /\ pc = "srec"
    /\ file.err = ""
    /\ rdata' = SrecInput(file.lines, SrecDefaults, plan.setting)
    /\ pc' = "srecread"
    /\ UNCHANGED <<data, collision_error, last, plan, file>>

\* HexOutput(sdata, filename, bytes_per_line=...)
HexWrite(bytes_per_line) ==
    /\ pc = "src"
    /\ file' = HexOutput(data, None, bytes_per_line)
    /\ plan' = [plan EXCEPT !.bytes_per_line = bytes_per_line]
    /\ pc' = "hex"
    /\ UNCHANGED <<data, collision_error, last, rdata>>

\* HexInput(filename)
HexRead ==
    /\ pc = "hex"
    /\ file.err = ""
    /\ rdata' = HexInput(HexNew, file.lines, HexDefaults, plan.setting)
    /\ pc' = "hexread"
    /\ UNCHANGED <<data, collision_error, last, plan, file>>

\* BinaryOutput(sdata, filename)
BinWrite ==
    /\ pc = "src"
    /\ file' = BinaryOutput(data)
    /\ pc' = "bin"
    /\ UNCHANGED <<data, collision_error, last, plan, rdata>>

\* BinaryInput(filename)
BinRead ==
    /\ pc = "bin"
    /\ file.err = ""
    /\ rdata' = BinaryInput(file.lines, plan.setting)
    /\ pc' = "binread"
    /\ UNCHANGED <<data, collision_error, last, plan, file>>

FileNext ==
    \/ \E address_bytes \in {None, 2, 3, 4}, bytes_per_line \in LineSizes :
          SrecWrite(address_bytes, bytes_per_line)
    \/ SrecRead
    \/ \E bytes_per_line \in LineSizes : HexWrite(bytes_per_line)
    \/ HexRead
    \/ BinWrite
    \/ BinRead

SpecFile == FileInit /\ [][FileNext]_vars

\* every address of the list fits in address_bytes bytes
Fits(list, address_bytes) ==
    \A i \in 1..Len(list) : ~Above256Pow(end(list[i]), address_bytes)

\* C6: any space, of any number of regions, written by SrecOutput with an
\* address width of 2, 3 or 4 bytes in which its addresses fit and read
\* back by SrecInput comes back with the same regions: same count, same
\* start addresses, same bytes.
C6_SrecRoundTrip ==
    (pc \in {"srec", "srecread"} /\ plan.address_bytes \in {2, 3, 4}
        /\ Fits(data, plan.address_bytes))
        => /\ file.err = ""
           /\ pc = "srecread" => (rdata.err = "" /\ rdata.data = data)

\* the same for the spaces that hold at least one region and are well formed
C6_OnWellFormedNonEmpty ==
    (pc \in {"srec", "srecread"} /\ plan.address_bytes \in {2, 3, 4}
        /\ Fits(data, plan.address_bytes) /\ Len(data) > 0 /\ WellFormed(data))
        => /\ file.err = ""
           /\ pc = "srecread" => (rdata.err = "" /\ rdata.data = data)

\* C7: any space that HexOutput accepts, also one with regions that start
\* above or span a 64 KiB boundary, read back by HexInput comes back with
\* the same regions: same count, same start addresses, same bytes.
C7_HexRoundTrip ==
    pc = "hexread" => (rdata.err = "" /\ rdata.data = data)

\* the same for the spaces that are well formed
C7_OnWellFormed ==
    (pc = "hexread" /\ WellFormed(data)) => (rdata.err = "" /\ rdata.data = data)

\* C8 as claimed: a space of exactly one region written by BinaryOutput and
\* read back by BinaryInput comes back with the same start, end and bytes.
C8_BinaryRoundTrip ==
    (pc = "binread" /\ Len(data) = 1) => (rdata.err = "" /\ rdata.data = data)

\* C8 as amended: the region comes back with the same bytes at address 0.
C8_BinaryRoundTripAtZero ==
    (pc \in {"bin", "binread"} /\ Len(data) = 1)
        => /\ file.err = ""
           /\ pc = "binread"
                => (rdata.err = "" /\ rdata.data = <<DataChunk(0, data[1].bytes)>>)

\* a region that starts above 0 has been written and read back
C8_Witness ==
    /\ pc = "binread"
    /\ Len(data) = 1
    /\ start(data[1]) > 0
    /\ Len(data[1].bytes) > 1

\* a space of at least one region has been written with no address_bytes
AutoWritten ==
    pc \in {"srec", "srecread"} /\ plan.address_bytes = None /\ Len(data) > 0

\* the highest populated address, end() - 1
HighestAddress == SparseEnd(data) - 1

\* the smallest of 2, 3 and 4 bytes that holds the highest populated address
SmallestWidth ==
    IF HighestAddress <= 65535 THEN 2
    ELSE IF HighestAddress <= 16777215 THEN 3
    ELSE 4

\* the data records are of the type of the smallest width, and of no
\* wider type than a width the fit check of write() accepts
WidthAsClaimed ==
    /\ file.err = ""
    /\ \A i \in 1..Len(file.lines) : file.lines[i].stype + 1 = SmallestWidth
    /\ \A n \in {2, 3, 4} :
          ~Above256Pow(SparseEnd(data), n)
              => \A i \in 1..Len(file.lines) : file.lines[i].stype + 1 <= n

\* C20: when address_bytes is not given, SrecOutput selects the smallest
\* width among 2, 3 and 4 bytes in which the highest populated address of
\* the data (end() - 1) fits: 2 when it is <= 0xFFFF, 3 when it is
\* <= 0xFFFFFF, otherwise 4; the selected width is never larger than one
\* that the fit check of write() accepts for the same data.
C20_AutoWidthSmallest ==
    AutoWritten => WidthAsClaimed

\* the same for the spaces that do not end exactly at 0x10000 or 0x1000000
C20_OffTheLimits ==
    (AutoWritten /\ SparseEnd(data) \notin {65536, 16777216}) => WidthAsClaimed

\* C22: BinaryOutput.write fails with NonContiguousError whenever the space
\* does not consist of exactly one region (zero regions as well as two or
\* more), and with exactly one region writes that region's bytes verbatim
\* and nothing else.
C22_BinaryOneRegion ==
    pc \in {"bin", "binread"} =>
        IF Len(data) = 1
        THEN file.err = "" /\ file.lines = data[1].bytes
        ELSE file.err = "NonContiguousError" /\ file.lines = <<>>

\* the same for the spaces that hold at least one region
C22_OnNonEmpty ==
    (pc \in {"bin", "binread"} /\ Len(data) > 0) =>
        IF Len(data) = 1
        THEN file.err = "" /\ file.lines = data[1].bytes
        ELSE file.err = "NonContiguousError" /\ file.lines = <<>>

-----------------------------------------------------------------------------
(* generator.py: the constant generators and fill *)

\* settings.BE, settings.LE
BE == 1
LE == 2

\* struct.Struct(settings.pack_string(endian, size)).pack(x)
Pack(endian, size, x) ==
    [i \in 1..size |->
        IF endian = LE THEN (x \div Pow256(i - 1)) % 256
        ELSE (x \div Pow256(size - i)) % 256]

\* b''.join(packer.pack(x) for x in data)
RECURSIVE JoinPacked(_, _, _)
JoinPacked(endian, size, words) ==
    IF words = <<>> THEN <<>>
    ELSE Pack(endian, size, Head(words)) \o JoinPacked(endian, size, Tail(words))

\* itertools.repeat(x, n)
Repeat(x, n) == [i \in 1..n |-> x]

\* itertools.islice(itertools.cycle(pattern), n)
Cycle(pattern, n) == [i \in 1..n |-> pattern[((i - 1) % Len(pattern)) + 1]]

\* SparseData(DataChunk(address, bindata)): the chunk is the only region of
\* the new space, and an empty chunk is not stored
SparseDataOf(address, bindata) ==
    IF Len(bindata) = 0 THEN <<>> ELSE <<DataChunk(address, bindata)>>

\* constant8 on an iterable of integers: one byte each
constant8(address, ints) == SparseDataOf(address, ints)

\* constant16 on an iterable of integers: two bytes each
constant16(address, ints, endian) == SparseDataOf(address, JoinPacked(endian, 2, ints))

\* constant32 on an iterable of integers: four bytes each
constant32(address, ints, endian) == SparseDataOf(address, JoinPacked(endian, 4, ints))

\* constant: the bytes as they are
constant(address, bytes) == SparseDataOf(address, bytes)

\* length // size
WordCount(length, size) == length \div size

\* the block function fill chooses from the type and magnitude of source;
\* source is [kind |-> "bytes", pattern |-> ...] or [kind |-> "int", n |-> ...]
block(source, endian, addr, length) ==
    IF source.kind = "bytes" THEN constant(addr, Cycle(source.pattern, length))
    ELSE IF source.n <= 255 THEN constant8(addr, Repeat(source.n, length))
    ELSE IF source.n <= 65535
         THEN constant16(addr, Repeat(source.n, WordCount(length, 2)), endian)
    ELSE constant32(addr, Repeat(source.n, WordCount(length, 4)), endian)

\* the first index (0-based) whose region starts at or above s, or -1
RECURSIVE FirstAtOrAbove(_, _, _)
FirstAtOrAbove(list, s, idx) ==
    IF idx >= Len(list) THEN -1
    ELSE IF start(list[idx + 1]) >= s THEN idx
    ELSE FirstAtOrAbove(list, s, idx + 1)

\* the walk of fill: while start < end, fill from start up to the next
\* region that starts at or above it, then go on from that region's end
RECURSIVE FillLoop(_, _, _, _, _, _)
FillLoop(list, ce, s, e, source, endian) ==
    IF ~(s < e) THEN [data |-> list, err |-> ""]
    ELSE LET idx == FirstAtOrAbove(list, s, 0)
             found == idx >= 0
             blockend == IF found THEN Min(start(list[idx + 1]), e) ELSE e
             nextstart == IF found THEN end(list[idx + 1]) ELSE e
             e2 == IF found THEN e ELSE 0
             fill_data == block(source, endian, s, blockend - s)
             r == add(list, ce, fill_data)
         IN  IF r.err # "" THEN [data |-> r.data, err |-> r.err]
             ELSE FillLoop(r.data, ce, nextstart, e2, source, endian)

\* generator.fill(sdata, start, end, source, endian=...): works on a deep
\* copy, which keeps the collision policy of sdata
fill(list, ce, s, e, source, endian) == FillLoop(list, ce, s, e, source, endian)

-----------------------------------------------------------------------------
(* Scenario 5 (SpecFill): the gaps of a space are filled *)

\* the integer sources: one per word size
FillInts == {255, 4660, 305419896}

\* the byte pattern sources
FillPatterns == {<<88>>, <<88, 89>>}

FillSources ==
    { [kind |-> "int", n |-> n, pattern |-> <<>>] : n \in FillInts }
    \cup { [kind |-> "bytes", n |-> 0, pattern |-> p] : p \in FillPatterns }

NoFill == [start |-> 0, end |-> 0, source |-> [kind |-> "int", n |-> 0, pattern |-> <<>>],
           endian |-> LE]

FillInit ==
    /\ collision_error \in BOOLEAN
    /\ \E args \in BaseArgs :
         LET b == add(<<>>, collision_error, args)
         IN  b.err = "" /\ data = b.data
    /\ plan = NoFill
    /\ last = NoOp
    /\ pc = "src"
    /\ file = <<>>
    /\ rdata = [data |-> <<>>, err |-> ""]

\* sdata2 = generator.fill(sdata, s, e, source, endian=endian)
Fill(s, e, source, endian) ==
    /\ pc = "src"
    /\ s < e
    /\ rdata' = fill(data, collision_error, s, e, source, endian)
    /\ plan' = [start |-> s, end |-> e, source |-> source, endian |-> endian]
    /\ pc' = "filled"
    /\ UNCHANGED <<data, collision_error, last, file>>

FillNext ==
    \E s \in 0..MaxAddr + 1, e \in 0..MaxAddr + 2, source \in FillSources,
       endian \in {BE, LE} : Fill(s, e, source, endian)

SpecFill == FillInit /\ [][FillNext]_vars

\* start lies strictly inside a region of the list
StrictlyInside(s, list) ==
    \E i \in 1..Len(list) : start(list[i]) < s /\ s < end(list[i])

\* C9: fill with start < end succeeds and keeps all existing data wherever
\* start and end lie relative to the regions: every address populated in
\* the input holds the same byte in the result, and only addresses of
\* [start, end) that were gaps are newly populated.
C9_FillKeepsData ==
    pc = "filled" =>
        /\ rdata.err = ""
        /\ Cells(data) \subseteq Cells(rdata.data)
        /\ \A p \in Cells(rdata.data) \ Cells(data) :
              /\ p[1] \in plan.start..plan.end - 1
              /\ p[1] \notin Addrs(data)

\* the same on well-formed spaces when start is not strictly inside a region
C9_OnStartOutside ==
    (pc = "filled" /\ WellFormed(data) /\ ~StrictlyInside(plan.start, data)) =>
        /\ rdata.err = ""
        /\ Cells(data) \subseteq Cells(rdata.data)
        /\ \A p \in Cells(rdata.data) \ Cells(data) :
              /\ p[1] \in plan.start..plan.end - 1
              /\ p[1] \notin Addrs(data)

\* C10: after a fill with an integer source that returned, every address
\* of [start, end) is populated, whatever the length of each gap.
C10_FillPopulatesRange ==
    (pc = "filled" /\ plan.source.kind = "int" /\ rdata.err = "") =>
        \A a \in plan.start..plan.end - 1 : a \in Addrs(rdata.data)

\* the same for a one-byte integer source or a byte pattern
C10_OnByteSource ==
    (pc = "filled" /\ rdata.err = ""
        /\ (plan.source.kind = "bytes" \/ plan.source.n <= 255)) =>
        \A a \in plan.start..plan.end - 1 : a \in Addrs(rdata.data)

-----------------------------------------------------------------------------
(* transform.py: crop and offset *)

\* crop.address_slice: the part of dc that lies in [s, e)
address_slice(dc, s, e) ==
    LET startpos == Max(s - dc.base, 0)
        endpos == Min(e - dc.base, Len(dc.bytes))
    IN  IF endpos < 0 \/ startpos >= Len(dc.bytes)
        THEN DataChunk(dc.base, <<>>)
        ELSE ChunkSlice(dc, startpos, endpos)

\* crop: SparseData(address_slice(x) for x in sdata); the new space takes
\* the process-wide collision policy
crop(list, s, e, setting) ==
    add(<<>>, setting, [i \in 1..Len(list) |-> address_slice(list[i], s, e)])

\* a slip in the test below: a negative base is let through
IsNegative_never(new_base) == FALSE

\* line 51: new_base < 0
IsNegative(new_base) == new_base < 0

\* offset: the regions are moved one after the other, in list order, and
\* the first negative base ends the walk
RECURSIVE OffsetLoop(_, _, _)
OffsetLoop(list, idx, delta) ==
    IF idx >= Len(list) THEN [data |-> list, err |-> ""]
    ELSE LET new_base == list[idx + 1].base + delta
         IN  IF IsNegative(new_base) THEN [data |-> list, err |-> "OverflowError"]
             ELSE OffsetLoop([list EXCEPT ![idx + 1].base = new_base], idx + 1, delta)

offset(list, delta) == OffsetLoop(list, 0, delta)

-----------------------------------------------------------------------------
(* Scenario 6 (SpecXform): a space is cropped or moved *)

XformInit ==
    /\ collision_error \in BOOLEAN
    /\ \E args \in BaseArgs :
         LET b == add(<<>>, collision_error, args)
         IN  b.err = "" /\ data = b.data
    /\ \E setting \in BOOLEAN : plan = [setting |-> setting, start |-> 0, end |-> 0]
    /\ last = NoOp
    /\ pc = "src"
    /\ file = <<>>
    /\ rdata = [data |-> <<>>, err |-> ""]

\* cropped = transform.crop(sdata, s, e)
Crop(s, e) ==
    /\ pc = "src"
    /\ rdata' = crop(data, s, e, plan.setting)
    /\ plan' = [plan EXCEPT !.start = s, !.end = e]
    /\ last' = [op |-> "crop", chunk |-> DataChunk(0, <<>>), before |-> data,
                ce |-> collision_error, err |-> rdata'.err, key |-> 0]
    /\ pc' = "crop"
    /\ UNCHANGED <<data, collision_error, file>>

\* transform.offset(sdata, delta): the regions of sdata itself are moved
Offset(delta) ==
    /\ pc = "src"
    /\ LET r == offset(data, delta)
       IN  /\ data' = r.data
           /\ last' = [op |-> "offset", chunk |-> DataChunk(0, <<>>), before |-> data,
                       ce |-> collision_error, err |-> r.err, key |-> delta]
    /\ pc' = "offset"
    /\ UNCHANGED <<collision_error, plan, file, rdata>>

XformNext ==
    \/ \E s \in -1..MaxAddr + 1, e \in -1..MaxAddr + 1 : Crop(s, e)
    \/ \E delta \in -MaxAddr..2 : Offset(delta)

SpecXform == XformInit /\ [][XformNext]_vars

\* the cells of the list at addresses in [s, e)
CellsIn(list, s, e) == { p \in Cells(list) : s <= p[1] /\ p[1] < e }

\* C11: crop(space, start, end) returns a new space whose populated
\* addresses are exactly those of the input that lie in [start, end), each
\* with the input's byte, and the input space is left as it was.
C11_CropExact ==
    pc = "crop" =>
        /\ rdata.err = ""
        /\ Cells(rdata.data) = CellsIn(data, plan.start, plan.end)
        /\ data = last.before

\* the same on well-formed input spaces, with a well-formed result
C11_OnWellFormed ==
    (pc = "crop" /\ WellFormed(data)) =>
        /\ rdata.err = ""
        /\ Cells(rdata.data) = CellsIn(data, plan.start, plan.end)
        /\ WellFormed(rdata.data)
        /\ data = last.before

\* the bases of the list never decrease
AddressSorted(list) ==
    \A i \in 1..Len(list) - 1 : start(list[i]) <= start(list[i + 1])

\* the list with every base moved by delta
Shifted(list, delta) == [i \in 1..Len(list) |-> DataChunk(list[i].base + delta, list[i].bytes)]

\* C12: on an address-sorted space offset is all-or-nothing: when some
\* resulting base would be negative it raises OverflowError and no base has
\* changed, otherwise every base is moved by exactly delta, bytes unchanged.
C12_OffsetAllOrNothing ==
    (pc = "offset" /\ AddressSorted(last.before)) =>
        IF \E i \in 1..Len(last.before) : last.before[i].base + last.key < 0
        THEN last.err = "OverflowError" /\ data = last.before
        ELSE last.err = "" /\ data = Shifted(last.before, last.key)

\* offset refused a move that only the lowest of several regions forbids
C12_Witness ==
    /\ pc = "offset"
    /\ last.err = "OverflowError"
    /\ Len(last.before) >= 2
    /\ AddressSorted(last.before)
    /\ last.before[1].base + last.key < 0
    /\ last.before[2].base + last.key >= 0

\* every space the constructor builds is address-sorted
XformSorted == AddressSorted(IF pc = "offset" THEN last.before ELSE data)

-----------------------------------------------------------------------------
(* settings.py and checksum.py *)

\* settings._settings after the modules are imported (settings.py:57-62,
\* checksum.py:51-55)
SettingsDefault ==
    [endian |-> LE, force_contiguous_checksum |-> TRUE, force_integer_wordcount |-> TRUE]

\* a slip in the lookup below: the overrides are not consulted
get_global(key, overrides, settings) == settings[key]

\* settings.get(key, overrides): overrides is [given |-> the keywords
\* passed, val |-> their values]
get(key, overrides, settings) ==
    IF key \in overrides.given THEN overrides.val[key] ELSE settings[key]

\* An integer of up to 32 bits is held as its two 16-bit halves,
\* [hi |-> r >> 16, lo |-> r & 0xFFFF]
Halves(hi, lo) == [hi |-> hi, lo |-> lo]

\* the result of a function that returned None
NoneResult == Halves(None, None)

\* struct.unpack of one word: the bytes of the word, most significant first
WordBytes(endian, bytes) ==
    IF endian = BE THEN bytes ELSE [i \in 1..Len(bytes) |-> bytes[Len(bytes) + 1 - i]]

\* the value of a word of 1, 2 or 4 bytes given most significant first
WordValue(b) ==
    IF Len(b) = 1 THEN Halves(0, b[1])
    ELSE IF Len(b) = 2 THEN Halves(0, 256 * b[1] + b[2])
    ELSE Halves(256 * b[1] + b[2], 256 * b[3] + b[4])

\* struct.unpack(root.format(q), bytes): q words of wordsize bytes
unpack(endian, wordsize, bytes) ==
    [k \in 1..(Len(bytes) \div wordsize) |->
        WordValue(WordBytes(endian, SubSeq(bytes, (k - 1) * wordsize + 1, k * wordsize)))]

\* a slip in the test below: the remainder is never looked at
Remainder_zero(length, wordsize) == 0

\* divmod(len(chunk), wordsize)[1]
Remainder(length, wordsize) == length % wordsize

\* checksum_wrapper.chunk_maker, consumed to its end: the words of the
\* regions in list order, or the error raised at region idx
RECURSIVE chunk_maker(_, _, _, _, _)
chunk_maker(list, wordsize, endian, iwc, idx) ==
    IF idx >= Len(list) THEN [words |-> <<>>, err |-> "", at |-> None]
    ELSE LET chunk == list[idx + 1]
             r == Remainder(Len(chunk.bytes), wordsize)
         IN  IF r # 0 /\ iwc
             THEN [words |-> <<>>, err |-> "NonIntegerWordCountError", at |-> idx]
             ELSE LET rest == chunk_maker(list, wordsize, endian, iwc, idx + 1)
                  IN  [words |-> unpack(endian, wordsize,
                                        PySlice(chunk.bytes, 0, Len(chunk.bytes) - r))
                                   \o rest.words,
                       err |-> rest.err, at |-> rest.at]

\* sum(data), kept as the sums of the two halves
RECURSIVE SumHalves(_)
SumHalves(words) ==
    IF words = <<>> THEN Halves(0, 0)
    ELSE LET t == SumHalves(Tail(words))
         IN  Halves(t.hi + Head(words).hi, t.lo + Head(words).lo)

\* sum(data) & 0xFF
sum8(words) == Halves(0, SumHalves(words).lo % 256)

\* sum(data) & 0xFFFF
sum16(words) == Halves(0, SumHalves(words).lo % 65536)

\* sum(data) & 0xFFFFFFFF
sum32(words) ==
    LET t == SumHalves(words)
    IN  Halves((t.hi + t.lo \div 65536) % 65536, t.lo % 65536)

\* (x & 0xFFFF) + (x >> 16)
Fold(x) == (x % 65536) + (x \div 65536)

\* a slip in the step below: sum2 gathers the words, not the running sum
FletcherStep_flat(s, d) == [sum1 |-> s.sum1 + d, sum2 |-> s.sum2 + d]

\* lines 168-169: sum1 += d; sum2 += sum1
FletcherStep(s, d) == [sum1 |-> s.sum1 + d, sum2 |-> s.sum2 + s.sum1 + d]

\* lines 167-169 over one list of iterate_count
RECURSIVE FletcherInner(_, _)
FletcherInner(s, ic) ==
    IF ic = <<>> THEN s ELSE FletcherInner(FletcherStep(s, Head(ic).lo), Tail(ic))

\* lines 166-172 over the lists of iterate_count
RECURSIVE FletcherOuter(_, _)
FletcherOuter(s, lists) ==
    IF lists = <<>> THEN s
    ELSE LET t == FletcherInner(s, Head(lists))
         IN  FletcherOuter([sum1 |-> Fold(t.sum1), sum2 |-> Fold(t.sum2)], Tail(lists))

\* fletcher32: (sum2 << 16) + sum1
fletcher32(words) ==
    LET t == FletcherOuter([sum1 |-> 65535, sum2 |-> 65535], iterate_count(words, 360))
    IN  Halves(Fold(t.sum2), Fold(t.sum1))

\* the word size each checksum function is decorated with
WordSize(fn) == IF fn = "sum8" THEN 1 ELSE IF fn = "sum32" THEN 4 ELSE 2

\* _checksum(wordsize)(fn): checksum_wrapper
checksum(fn, list, kwargs, settings) ==
    IF Len(list) = 0 THEN [value |-> NoneResult, err |-> "", at |-> None]
    ELSE IF Len(list) > 1 /\ get("force_contiguous_checksum", kwargs, settings)
    THEN [value |-> NoneResult, err |-> "NonContiguousError", at |-> None]
    ELSE LET m == chunk_maker(list, WordSize(fn), get("endian", kwargs, settings),
                              get("force_integer_wordcount", kwargs, settings), 0)
         IN  IF m.err # "" THEN [value |-> NoneResult, err |-> m.err, at |-> m.at]
             ELSE [value |-> IF fn = "sum8" THEN sum8(m.words)
                             ELSE IF fn = "sum16" THEN sum16(m.words)
                             ELSE IF fn = "sum32" THEN sum32(m.words)
                             ELSE fletcher32(m.words),
                   err |-> "", at |-> None]

-----------------------------------------------------------------------------
(* Scenario 7 (SpecSum): checksums of a space under changing settings *)

\* the longest single region, in 16-bit words
MaxWords == 3

\* single regions of every length over the bytes 0x00 and 0xFF
SumRegions ==
    UNION { { DataChunk(0, b) : b \in [1..n -> {0, 255}] } : n \in 1..2 * MaxWords }

\* spaces of two regions of every pair of lengths
SumPairs ==
    { <<DataChunk(0, ByteSeq(1, n1)), DataChunk(16, ByteSeq(251, n2))>> :
        n1 \in 1..2 * MaxWords - 2, n2 \in 1..2 * MaxWords - 2 }

SumSpaces == {<<>>} \cup { <<c>> : c \in SumRegions } \cup SumPairs

SettingKeys == {"endian", "force_contiguous_checksum", "force_integer_wordcount"}

\* the keyword arguments of a call; a keyword not passed keeps a fixed value
KwargsVals ==
    [endian : {BE, LE}, force_contiguous_checksum : BOOLEAN,
     force_integer_wordcount : BOOLEAN]

Kwargs ==
    { kw \in [given : SUBSET SettingKeys, val : KwargsVals] :
        \A k \in SettingKeys \ kw.given : kw.val[k] = SettingsDefault[k] }

ChecksumNames == {"sum8", "sum16", "sum32", "fletcher32"}

NoCall == [fn |-> "", kwargs |-> [given |-> {}, val |-> SettingsDefault],
           settings |-> SettingsDefault]

NoResult == [value |-> NoneResult, err |-> "", at |-> None]

SumInit ==
    /\ data \in SumSpaces
    /\ collision_error = TRUE
    /\ plan = SettingsDefault
    /\ file = NoCall
    /\ rdata = NoResult
    /\ last = NoOp
    /\ pc = "sum"

\* settings.set(endian=value)
SetEndian(value) ==
    /\ pc = "sum"
    /\ plan.endian # value
    /\ plan' = [plan EXCEPT !.endian = value]
    /\ UNCHANGED <<data, collision_error, file, rdata, last, pc>>

\* settings.set(force_contiguous_checksum=value)
SetForceContiguous(value) ==
    /\ pc = "sum"
    /\ plan.force_contiguous_checksum # value
    /\ plan' = [plan EXCEPT !.force_contiguous_checksum = value]
    /\ UNCHANGED <<data, collision_error, file, rdata, last, pc>>

\* settings.set(force_integer_wordcount=value)
SetForceInteger(value) ==
    /\ pc = "sum"
    /\ plan.force_integer_wordcount # value
    /\ plan' = [plan EXCEPT !.force_integer_wordcount = value]
    /\ UNCHANGED <<data, collision_error, file, rdata, last, pc>>

\* result = checksum.fn(sdata, **kwargs)
Checksum(fn, kwargs) ==
    /\ pc = "sum"
    /\ rdata' = checksum(fn, data, kwargs, plan)
    /\ file' = [fn |-> fn, kwargs |-> kwargs, settings |-> plan]
    /\ pc' = "summed"
    /\ UNCHANGED <<data, collision_error, plan, last>>

SumNext ==
    \/ \E value \in {BE, LE} : SetEndian(value)
    \/ \E value \in BOOLEAN : SetForceContiguous(value)
    \/ \E value \in BOOLEAN : SetForceInteger(value)
    \/ \E fn \in ChecksumNames, kwargs \in Kwargs : Checksum(fn, kwargs)

SpecSum == SumInit /\ [][SumNext]_vars

\* the value of an option for the last call: the keyword if passed,
\* otherwise the process-wide setting at the time of the call
InEffect(key) ==
    IF key \in file.kwargs.given THEN file.kwargs.val[key] ELSE file.settings[key]

\* the last call was fn on a single region of 2k bytes, k >= 1, and returned
SummedWords(fn) ==
    /\ pc = "summed"
    /\ file.fn = fn
    /\ rdata.err = ""
    /\ Len(data) = 1
    /\ Len(data[1].bytes) % 2 = 0

\* the k-th 16-bit word of a region, as its two bytes in storage order
WordOf(c, k) == SubSeq(c.bytes, 2 * k - 1, 2 * k)

WordCountOf(c) == Len(c.bytes) \div 2

\* the region with its words in the order f[1], f[2], ...
Reordered(c, f) ==
    DataChunk(c.base, [i \in 1..Len(c.bytes) |-> WordOf(c, f[(i + 1) \div 2])[2 - (i % 2)]])

\* the region with its words in reverse order
Reversed(c) ==
    DataChunk(c.base,
        [i \in 1..Len(c.bytes) |-> WordOf(c, WordCountOf(c) + 1 - (i + 1) \div 2)[2 - (i % 2)]])

\* the same call as the last one, on another space
Recall(list) == checksum(file.fn, list, file.kwargs, file.settings)

\* sum16 gives the same result for every reordering of the words
SumOrderFree ==
    SummedWords("sum16") =>
        \A f \in Perms(WordCountOf(data[1])) :
            Recall(<<Reordered(data[1], f)>>) = rdata

\* C13: on a single region of 2k bytes sum16 is the same for every
\* reordering of the 16-bit words, and fletcher32 of the region with its
\* words reversed differs from fletcher32 of the region whenever it holds at
\* least two distinct nonzero words.
C13_SumFreeFletcherReversal ==
    /\ SumOrderFree
    /\ (SummedWords("fletcher32")
          /\ \E i, j \in 1..WordCountOf(data[1]) :
                /\ WordOf(data[1], i) # WordOf(data[1], j)
                /\ WordOf(data[1], i) # <<0, 0>>
                /\ WordOf(data[1], j) # <<0, 0>>)
       => Recall(<<Reversed(data[1])>>) # rdata

\* the first and the last word of a region of two or three words are
\* distinct and nonzero
EndsDiffer(c) ==
    /\ WordCountOf(c) \in {2, 3}
    /\ WordOf(c, 1) # WordOf(c, WordCountOf(c))
    /\ WordOf(c, 1) # <<0, 0>>
    /\ WordOf(c, WordCountOf(c)) # <<0, 0>>

\* C13 as amended: sum16 is the same for every reordering of the words, and
\* fletcher32 of the reversed region differs from that of the region when
\* the region has two or three words whose first and last are distinct and
\* nonzero.
C13_SumFreeFletcherEnds ==
    /\ SumOrderFree
    /\ (SummedWords("fletcher32") /\ EndsDiffer(data[1]))
       => Recall(<<Reversed(data[1])>>) # rdata

\* fletcher32 returned for three words whose first and last differ
C13_Witness ==
    /\ SummedWords("fletcher32")
    /\ WordCountOf(data[1]) = 3
    /\ EndsDiffer(data[1])
    /\ rdata.value # NoneResult

\* the value of the k-th word of the region under the byte order in effect
WordInt(c, k) ==
    IF InEffect("endian") = BE THEN 256 * WordOf(c, k)[1] + WordOf(c, k)[2]
    ELSE 256 * WordOf(c, k)[2] + WordOf(c, k)[1]

\* w_1 + ... + w_n
RECURSIVE PlainSum(_, _)
PlainSum(c, n) == IF n = 0 THEN 0 ELSE PlainSum(c, n - 1) + WordInt(c, n)

\* n * w_1 + (n - 1) * w_2 + ... + 1 * w_n
RECURSIVE WeightedSum(_, _)
WeightedSum(c, n) ==
    IF n = 0 THEN 0 ELSE WeightedSum(c, n - 1) + PlainSum(c, n)

\* C14: for words w_1..w_n, n >= 1, fletcher32 returns (sum2 << 16) | sum1
\* with sum1 = (w_1 + ... + w_n) mod 65535 and
\* sum2 = (sum of (n - i + 1) * w_i) mod 65535, in either byte order.
C14_FletcherFormula ==
    (SummedWords("fletcher32") /\ WordCountOf(data[1]) >= 1) =>
        rdata.value = Halves(WeightedSum(data[1], WordCountOf(data[1])) % 65535,
                             PlainSum(data[1], WordCountOf(data[1])) % 65535)

\* the same when neither sum is a multiple of 65535
C14_OnNonzeroSums ==
    (SummedWords("fletcher32") /\ WordCountOf(data[1]) >= 1
        /\ WeightedSum(data[1], WordCountOf(data[1])) % 65535 # 0
        /\ PlainSum(data[1], WordCountOf(data[1])) % 65535 # 0) =>
        rdata.value = Halves(WeightedSum(data[1], WordCountOf(data[1])) % 65535,
                             PlainSum(data[1], WordCountOf(data[1])) % 65535)

\* C15: a checksum of a space of more than one region raises
\* NonContiguousError whenever force_contiguous_checksum is in effect (the
\* keyword of the call if passed, otherwise the process-wide setting), no
\* integer is returned, and the call leaves the process-wide settings as
\* they were.
C15_NonContiguousRaised ==
    pc = "summed" =>
        /\ (Len(data) > 1 /\ InEffect("force_contiguous_checksum")) =>
              rdata.err = "NonContiguousError" /\ rdata.value = NoneResult
        /\ plan = file.settings

\* the keyword of the call turned the check on against the setting
C15_Witness ==
    /\ pc = "summed"
    /\ Len(data) > 1
    /\ "force_contiguous_checksum" \in file.kwargs.given
    /\ file.kwargs.val.force_contiguous_checksum
    /\ ~plan.force_contiguous_checksum
    /\ rdata.err = "NonContiguousError"

\* the regions (0-based) whose length is no multiple of the word size
Ragged(list, wordsize) ==
    { i \in 0..Len(list) - 1 : Len(list[i + 1].bytes) % wordsize # 0 }

\* C16: with force_integer_wordcount in effect a checksum of a space with a
\* region whose length is no multiple of the word size raises
\* NonIntegerWordCountError carrying such a region and returns no value,
\* also when the total length is a multiple; when every region's length is
\* a multiple this error is never raised.
C16_NonIntegerRaised ==
    pc = "summed" =>
        /\ (InEffect("force_integer_wordcount")
              /\ Ragged(data, WordSize(file.fn)) # {}) =>
              /\ rdata.err = "NonIntegerWordCountError"
              /\ rdata.at \in Ragged(data, WordSize(file.fn))
              /\ rdata.value = NoneResult
        /\ Ragged(data, WordSize(file.fn)) = {} =>
              rdata.err # "NonIntegerWordCountError"

\* the contiguity check, which comes first, lets the last call through
ContiguityPassed == ~(Len(data) > 1 /\ InEffect("force_contiguous_checksum"))

\* C16 as amended: the same for the calls that the contiguity check lets
\* through (a single region, or force_contiguous_checksum not in effect).
C16_NonIntegerRaisedAfterContiguity ==
    pc = "summed" =>
        /\ (InEffect("force_integer_wordcount") /\ ContiguityPassed
              /\ Ragged(data, WordSize(file.fn)) # {}) =>
              /\ rdata.err = "NonIntegerWordCountError"
              /\ rdata.at \in Ragged(data, WordSize(file.fn))
              /\ rdata.value = NoneResult
        /\ Ragged(data, WordSize(file.fn)) = {} =>
              rdata.err # "NonIntegerWordCountError"

\* two regions of odd length and even total refused by sum16
C16_Witness ==
    /\ pc = "summed"
    /\ file.fn = "sum16"
    /\ Len(data) = 2
    /\ Len(data[1].bytes) % 2 = 1
    /\ Len(data[2].bytes) % 2 = 1
    /\ InEffect("force_integer_wordcount")
    /\ rdata.err = "NonIntegerWordCountError"
    /\ rdata.at = 0

-----------------------------------------------------------------------------
(* Scenario 8 (SpecSrecRead): SrecInput.read takes a file line by line *)

\* a record of type S over blockdata; dcount is added to the count field
\* and dcs to the checksum byte (0 and 0 give a correct record)
MkSrec(S, blockdata, dcount, dcs) ==
    LET field == Len(blockdata) + 1 + dcount
        cs == (255 - (Sum(blockdata, field) % 256) + dcs) % 256
    IN  SrecLine(S, JoinHex(<<field>> \o blockdata \o <<cs>>))

\* S1130000 000102...0F 74
ExampleLine == MkSrec(1, <<0, 0>> \o [i \in 1..16 |-> i - 1], 0, 0)

\* address and payload bytes of the records tried, by type
SrecBlocks ==
    { <<0, <<0, 0, 72>>>> }
    \cup { <<1, <<0, a>> \o p>> : a \in {0, 1, 2}, p \in {<<170>>, <<170, 171>>} }
    \cup { <<2, <<0, 0, a, 187>>>> : a \in {0, 2} }
    \cup { <<3, <<0, 0, 0, 1, 204>>>> }
    \cup { <<5, <<0, n>>>> : n \in {0, 1, 2} }
    \cup { <<7, <<0, 0, 0, 5>>>>, <<8, <<0, 0, 5>>>>, <<9, <<0, 5>>>> }

\* the lines a file may hold: each record right, with a wrong count field,
\* with a wrong checksum byte or both; two lines that are no S-records
SrecLines ==
    { MkSrec(b[1], b[2], dcount, dcs) : b \in SrecBlocks, dcount \in {0, 1}, dcs \in {0, 1} }
    \cup { ExampleLine, SrecLine(4, <<0, 3, 0, 0, 15, 12>>), SrecLine(1, <<0, 1, 15, 14>>) }

\* the first line of a file
SrecFirstLines ==
    { MkSrec(1, <<0, 0, 16, 17>>, 0, 0), MkSrec(1, <<0, 1, 16>>, 0, 0),
      MkSrec(0, <<0, 0, 72>>, 0, 0), MkSrec(5, <<0, 0>>, 0, 0), ExampleLine }

SrecOptions ==
    [force_good_checksum : BOOLEAN, force_good_bytecount : BOOLEAN,
     force_valid_recordcount : BOOLEAN, force_all_records : BOOLEAN]

\* the reader before the first line: _resetStates and SparseData()
SrecNew ==
    [data |-> <<>>, header |-> <<>>, startAddress |-> None, record_count |-> 0, err |-> ""]

SrecReadInit ==
    /\ \E l1 \in SrecFirstLines, l2 \in SrecLines :
         file = [err |-> "", lines |-> <<l1, l2>>]
    /\ \E opts \in SrecOptions, setting \in BOOLEAN :
         plan = [opts |-> opts, setting |-> setting, ln |-> 0]
    /\ rdata = SrecNew
    /\ data = <<>>
    /\ collision_error = TRUE
    /\ last = NoOp
    /\ pc = "reading"

\* one turn of the loop over the lines of the file
SrecReadNext ==
    /\ pc = "reading"
    /\ rdata.err = ""
    /\ plan.ln < Len(file.lines)
    /\ rdata' = SrecReadLine(rdata, file.lines[plan.ln + 1], plan.opts, plan.setting)
    /\ plan' = [plan EXCEPT !.ln = @ + 1]
    /\ last' = [op |-> "line", chunk |-> DataChunk(0, <<>>), before |-> rdata,
                ce |-> plan.setting, err |-> rdata'.err, key |-> plan.ln]
    /\ UNCHANGED <<data, collision_error, file, pc>>

SrecReadStep == SrecReadNext

SpecSrecRead == SrecReadInit /\ [][SrecReadStep]_vars

\* the line the last turn read, taken apart as the format defines it
LineRead == file.lines[last.key + 1]
LineCount == IntHex(SubSeq(LineRead.hex, 1, 2))
LineBytes == HexPairs(SubSeq(LineRead.hex, 3, Len(LineRead.hex) - 2))
LineChecksum == IntHex(SubSeq(LineRead.hex, Len(LineRead.hex) - 1, Len(LineRead.hex)))

\* the one's complement of the low byte of count field + sum of the bytes
LineExpected == 255 - ((LineCount + Sum(LineBytes, 0)) % 256)

\* a line was read with checksum checking on, and it is a well-formed
\* record: a known type, and as many bytes as its count field says
ValidLineRead ==
    /\ last.op = "line"
    /\ plan.opts.force_good_checksum
    /\ LineRead.stype \in {0, 1, 2, 3, 5, 7, 8, 9}
    /\ Len(LineRead.hex) >= 6
    /\ Len(LineRead.hex) % 2 = 0
    /\ Len(LineBytes) + 1 = LineCount

\* the data of a data record
LineChunk ==
    DataChunk(_read_big_endian(SubSeq(LineBytes, 1, LineRead.stype + 1)),
              SubSeq(LineBytes, LineRead.stype + 2, Len(LineBytes)))

\* a line with a wrong checksum is refused and leaves the reader as it was
BadChecksumRefused ==
    (ValidLineRead /\ LineChecksum # LineExpected) =>
        /\ rdata.err = "InvalidRecord"
        /\ rdata.data = last.before.data
        /\ rdata.header = last.before.header
        /\ rdata.startAddress = last.before.startAddress

\* the example record read first gives 16 bytes at address 0
ExampleDecoded ==
    (ValidLineRead /\ LineRead = ExampleLine /\ last.key = 0) =>
        rdata.err = "" /\ rdata.data = <<DataChunk(0, [i \in 1..16 |-> i - 1])>>

\* C17: with checksum checking on, SrecInput.read raises InvalidRecord for
\* every well-formed record whose checksum byte is not the one's complement
\* of the low byte of (count field + sum of address and payload bytes) and
\* adds none of its data, and accepts every record whose checksum byte is
\* that value; S1130000 with payload 00..0F decodes to 16 bytes at 0.
C17_ChecksumDecides ==
    /\ BadChecksumRefused
    /\ (ValidLineRead /\ LineChecksum = LineExpected) => rdata.err = ""
    /\ ExampleDecoded

\* the record read is refused by no other test: its record count, if it is
\* an S5 record, is right or not checked, and its data, if it is a data
\* record, meets no data read before or collisions are not errors
OtherTestsPass ==
    /\ (LineRead.stype = 5 /\ plan.opts.force_valid_recordcount) =>
          _read_big_endian(LineBytes) = last.before.record_count
    /\ (LineRead.stype \in {1, 2, 3} /\ plan.setting) =>
          ChunkAddrs(LineChunk) \cap Addrs(last.before.data) = {}

\* C17 as amended: a record with the right checksum byte is accepted unless
\* another test refuses it (a wrong record count in an S5 record, data that
\* collides with data read before), and then its data is in the space read.
C17_ChecksumDecidesAlone ==
    /\ BadChecksumRefused
    /\ (ValidLineRead /\ LineChecksum = LineExpected /\ OtherTestsPass) =>
          /\ rdata.err = ""
          /\ LineRead.stype \in {1, 2, 3} => ChunkCells(LineChunk) \subseteq Cells(rdata.data)
    /\ ExampleDecoded

\* a second data record with a wrong checksum byte was refused
C17_Witness ==
    /\ ValidLineRead
    /\ last.key = 1
    /\ LineRead.stype = 1
    /\ LineChecksum # LineExpected
    /\ last.before.data # <<>>
    /\ rdata.err = "InvalidRecord"

-----------------------------------------------------------------------------
(* Scenario 9 (SpecHexRead): HexInput.read takes a file record by record *)

\* the text of a record after the colon: length field, address, type,
\* payload and checksum byte (dcs = 0 gives the right one)
MkHex(dlen, addr, type, payload, dcs) ==
    LET b == <<dlen, addr \div 256, addr % 256, type>> \o payload
    IN  JoinHex(b \o <<(256 - (Sum(b, 0) % 256) + dcs) % 256>>)

\* the records a file may hold
HexRecords ==
    { MkHex(Len(p), a, 0, p, 0) : a \in {0, 1, 2}, p \in {<<170>>, <<170, 171>>} }
    \cup { MkHex(1, 1, 0, <<187>>, 1), MkHex(0, 0, 1, <<>>, 0), MkHex(0, 0, 6, <<>>, 0), <<>> }
    \cup { MkHex(2, 0, t, p, 0) : t \in {2, 4}, p \in {<<0, 1>>, <<0, 0>>, <<1>>, <<0, 1, 2>>} }
    \cup { MkHex(Len(p), 0, t, p, 0) : t \in {2, 4}, p \in {<<1>>, <<0, 1, 2>>} }
    \cup { MkHex(3, 0, t, <<0, 1>>, 0) : t \in {2, 4} }
    \cup { MkHex(4, 0, t, <<0, 1, 0, 2>>, 0) : t \in {3, 5} }
    \cup { MkHex(2, 0, t, <<0, 1>>, 0) : t \in {3, 5} }

HexOptions == [force_good_checksum : BOOLEAN, force_good_bytecount : BOOLEAN,
               eof_error : BOOLEAN]

HexReadInit ==
    /\ \E opts \in HexOptions, setting \in BOOLEAN :
         plan = [opts |-> opts, setting |-> setting, n |-> 0]
    /\ rdata = HexNew
    /\ file = <<>>
    /\ data = <<>>
    /\ collision_error = TRUE
    /\ last = NoOp
    /\ pc = "reading"

\* one turn of the loop over the records of the file
HexReadNext(record) ==
    /\ pc = "reading"
    /\ rdata.err = ""
    /\ plan.n < MaxOps
    /\ rdata' = HexReadRecord(rdata, record, plan.opts, plan.setting)
    /\ plan' = [plan EXCEPT !.n = @ + 1]
    /\ last' = [op |-> "record", chunk |-> DataChunk(0, <<>>), before |-> rdata,
                ce |-> plan.setting, err |-> rdata'.err, key |-> record]
    /\ UNCHANGED <<data, collision_error, file, pc>>

HexReadStep == \E record \in HexRecords : HexReadNext(record)

SpecHexRead == HexReadInit /\ [][HexReadStep]_vars

\* the record the last turn read, taken apart as the format defines it
RecBytes == HexPairs(last.key)
RecType == RecBytes[4]
RecAddr == RecBytes[2] * 256 + RecBytes[3]
RecPayload == SubSeq(RecBytes, 5, Len(RecBytes) - 1)

\* the last turn read a record, empty text between two colons apart
RecordRead == last.op = "record" /\ last.key # <<>>

\* C18: with eof_error on, once an EOF record has been processed every
\* further record of any type, a second EOF record included, makes the read
\* fail with InvalidRecord and touches neither the data nor the base
\* address; with eof_error off a record after the EOF record is processed
\* like any other.
C18_NothingPastEof ==
    (RecordRead /\ last.before.eof) =>
        IF plan.opts.eof_error
        THEN /\ rdata.err = "InvalidRecord"
             /\ rdata.data = last.before.data
             /\ rdata.baseaddr = last.before.baseaddr
        ELSE rdata = [HexReadRecord([last.before EXCEPT !.eof = FALSE], last.key,
                                    plan.opts, plan.setting) EXCEPT !.eof = TRUE]

\* a second EOF record was refused
C18_Witness ==
    /\ RecordRead
    /\ last.before.eof
    /\ plan.opts.eof_error
    /\ RecType = 1
    /\ rdata.err = "InvalidRecord"

\* what C19 says of the record read, given as much of the format as holds
BaseAndData ==
    /\ (rdata.err = "" /\ RecType = 0) =>
          /\ ChunkCells(DataChunk(last.before.baseaddr + RecAddr, RecPayload))
                \subseteq Cells(rdata.data)
          /\ rdata.baseaddr = last.before.baseaddr
    /\ (rdata.err = "" /\ RecType = 2) =>
          rdata.baseaddr = (RecPayload[1] * 256 + RecPayload[2]) * 16
    /\ (rdata.err = "" /\ RecType = 4) =>
          rdata.baseaddr = (RecPayload[1] * 256 + RecPayload[2]) * 65536
    /\ RecType \in {3, 5} =>
          rdata.baseaddr = last.before.baseaddr /\ rdata.data = last.before.data
    /\ (RecType \in {2, 4} /\ Len(RecPayload) # 2) =>
          rdata.err = "InvalidRecord" /\ rdata.baseaddr = last.before.baseaddr

\* C19: every data record is added at base + its 16-bit address, base being
\* 0 until an extended-segment record sets it to value << 4 or an
\* extended-linear record to value << 16, whichever came last; start-address
\* records change neither base nor data; a type 2 or 4 record whose payload
\* is not exactly 2 bytes fails with InvalidRecord and leaves the base.
C19_BaseAddressing ==
    /\ last.op = "init" => rdata.baseaddr = 0
    /\ RecordRead => BaseAndData

\* the same while the byte count of every record is checked
C19_OnCheckedByteCount ==
    /\ last.op = "init" => rdata.baseaddr = 0
    /\ (RecordRead /\ plan.opts.force_good_bytecount) => BaseAndData

----------------------------------------------------------------------------
(* Scenario 10 (SpecHexWrite): HexOutput writes a space, low or at the top *)
(* of the 32-bit range; _chunky splits one of its regions                   *)

\* the space lies plan.page blocks of 64 KiB above the addresses of data
HexPages == {0, 65535}

\* start addresses around a 64 KiB boundary
HexStarts == {0, 65533, 65534, 65536}

HexChunks(t) ==
    { DataChunk(a, ByteSeq(t, n)) : a \in HexStarts, n \in 1..MaxLen }

\* the arguments of the constructor: up to two chunks
HexArgs ==
    {<<>>} \cup { <<c>> : c \in HexChunks(254) }
           \cup { <<c1, c2>> : c1 \in HexChunks(254), c2 \in HexChunks(7) }

\* bytes_per_line: one byte, a short line and the default
HexLineSizes == {1, 2, 32}

\* start_address: none, or 0x12345678
HexEntries == {None, 305419896}

HexWriteInit ==
    /\ collision_error \in BOOLEAN
    /\ \E args \in HexArgs :
         LET b == add(<<>>, collision_error, args)
         IN  b.err = "" /\ data = b.data
    /\ \E page \in HexPages :
         plan = [page |-> page, bytes_per_line |-> 0, start_address |-> None,
                 region |-> 0]
    /\ last = NoOp
    /\ pc = "src"
    /\ file = [err |-> "", lines |-> <<>>]
    /\ rdata = <<>>

\* HexOutput(sdata, filename, start_address=..., bytes_per_line=...)
HexWriteAt(start_address, bytes_per_line) ==
    /\ pc = "src"
    /\ file' = HexOutputAt(plan.page, data, start_address, bytes_per_line)
    /\ plan' = [plan EXCEPT !.bytes_per_line = bytes_per_line,
                            !.start_address = start_address]
    /\ pc' = "hexout"
    /\ UNCHANGED <<data, collision_error, last, rdata>>

\* list(writer._chunky(sdata[region]))
Chunky(region, bytes_per_line) ==
    /\ pc = "src"
    /\ region < Len(data)
    /\ rdata' = _chunky(plan.page, data[region + 1], bytes_per_line)
    /\ plan' = [plan EXCEPT !.bytes_per_line = bytes_per_line, !.region = region]
    /\ pc' = "chunky"
    /\ UNCHANGED <<data, collision_error, last, file>>

HexWriteNext ==
    \/ \E start_address \in HexEntries, bytes_per_line \in HexLineSizes :
          HexWriteAt(start_address, bytes_per_line)
    \/ \E region \in {0, 1}, bytes_per_line \in HexLineSizes :
          Chunky(region, bytes_per_line)

SpecHexWrite == HexWriteInit /\ [][HexWriteNext]_vars

\* the 64 KiB block of the address a of data, and the address within it
BlockOf(a) == plan.page + a \div 65536
WithinBlock(a) == a % 65536

\* the space holds a populated address of 2^32 or more
PopulatedBeyond32 ==
    \E i \in 1..Len(data) :
        Len(data[i].bytes) > 0 /\ BlockOf(end(data[i]) - 1) >= 65536

\* C21: HexOutput.write fails with a ValueError-class error, before emitting
\* any record, exactly when the space contains a populated address >= 2^32;
\* a space whose highest populated address is 0xFFFFFFFF (end() = 2^32) is
\* written without error.
C21_HexRangeCheck ==
    (pc = "hexout" /\ Len(data) > 0) =>
        IF PopulatedBeyond32
        THEN file.err = "ValueError" /\ file.lines = <<>>
        ELSE file.err = ""

\* what the write does for a space of at least one region: it fails, with
\* nothing emitted, exactly when end() is 2^32 or more
C21_FailsFromEnd ==
    (pc = "hexout" /\ Len(data) > 0) =>
        IF BlockOf(SparseEnd(data)) >= 65536
        THEN file.err = "AttributeError" /\ file.lines = <<>>
        ELSE file.err = ""

\* the region split and the pieces _chunky made of it
SplitRegion == data[plan.region + 1]
PieceOffset(k) == Sum([i \in 1..k - 1 |-> Len(rdata[i].data)], 0)

\* C25: for bytes_per_line >= 1, _chunky terminates on every region and
\* yields chunks that each hold between 1 and bytes_per_line bytes, never
\* extend past a 64 KiB boundary (low 16-bit address + length <= 0x10000),
\* never mix bytes of two regions, and whose concatenation in order is
\* exactly the region's bytes at consecutive addresses.
C25_ChunkyPieces ==
    pc = "chunky" =>
        /\ \A k \in 1..Len(rdata) :
              /\ Len(rdata[k].data) \in 1..plan.bytes_per_line
              /\ rdata[k].addr + Len(rdata[k].data) <= 65536
              /\ rdata[k].h = BlockOf(start(SplitRegion) + PieceOffset(k))
              /\ rdata[k].addr = WithinBlock(start(SplitRegion) + PieceOffset(k))
              /\ rdata[k].data = SubSeq(SplitRegion.bytes, PieceOffset(k) + 1,
                                        PieceOffset(k) + Len(rdata[k].data))
        /\ PieceOffset(Len(rdata) + 1) = Len(SplitRegion.bytes)

\* a region that spans a 64 KiB boundary was split there and not by
\* bytes_per_line
C25_Witness ==
    /\ pc = "chunky"
    /\ plan.bytes_per_line > Len(SplitRegion.bytes)
    /\ Len(rdata) = 2
    /\ rdata[2].addr = 0
    /\ rdata[2].h = rdata[1].h + 1

\* the records of the file, taken apart as the format defines them
FileRec(i) == HexPairs(file.lines[i])
FileRecType(i) == FileRec(i)[4]
FileRecAddr(i) == FileRec(i)[2] * 256 + FileRec(i)[3]
FileRecPayload(i) == SubSeq(FileRec(i), 5, Len(FileRec(i)) - 1)

\* the positions of the type 4 records before record i
HighsBefore(i) == { j \in 1..i - 1 : FileRecType(j) = 4 }

\* the upper 16 address bits in force at record i
HighAt(i) ==
    LET j == CHOOSE x \in HighsBefore(i) : \A y \in HighsBefore(i) : y <= x
    IN  FileRecPayload(j)[1] * 256 + FileRecPayload(j)[2]

\* (block, address in block, byte) for every byte of the data records
RecordCells ==
    UNION { { <<HighAt(i), FileRecAddr(i) + k - 1, FileRecPayload(i)[k]>> :
                k \in 1..Len(FileRecPayload(i)) } :
            i \in { x \in 1..Len(file.lines) : FileRecType(x) = 0 } }

\* the same for every byte of the space
SpaceCells == { <<BlockOf(p[1]), WithinBlock(p[1]), p[2]>> : p \in Cells(data) }

\* C24: in the record sequence emitted by HexOutput.write for a non-empty
\* space, every data record is preceded by at least one extended linear
\* address (type 4) record and the most recent type 4 record before it
\* carries exactly the upper 16 bits of that data record's absolute address;
\* the start linear address record, if any, follows all data records; the
\* final record is an EOF (type 1) record and no other EOF record is emitted.
C24_HexRecordOrder ==
    (pc = "hexout" /\ file.err = "" /\ Len(data) > 0) =>
        LET n == Len(file.lines)
        IN  /\ n > 0
            /\ FileRecType(n) = 1
            /\ \A i \in 1..n - 1 : FileRecType(i) # 1
            /\ \A i \in 1..n : FileRecType(i) = 0 => HighsBefore(i) # {}
            /\ RecordCells = SpaceCells
            /\ \A i, j \in 1..n :
                  (FileRecType(i) = 5 /\ FileRecType(j) = 0) => j < i

\* a file with two type 4 records, data records after each and a start
\* linear address record
C24_Witness ==
    /\ pc = "hexout"
    /\ file.err = ""
    /\ Cardinality({ i \in 1..Len(file.lines) : FileRecType(i) = 4 }) >= 2
    /\ \E i \in 1..Len(file.lines) : FileRecType(i) = 5
    /\ FileRecType(Len(file.lines) - 2) = 0

----------------------------------------------------------------------------
(* Scenario 11 (SpecSlice): a DataChunk is sliced *)

\* the value Python returns when a function ends without a return statement
NoValue == [kind |-> "None", base |-> 0, bytes |-> <<>>]

\* DataChunk.__getitem__(slice(i, j, step)), an omitted step being the step
\* 1: the unit-stride slice is returned as a new DataChunk; for any other
\* step the function runs off its end, lines 78-81, and returns None
getitem(c, i, j, step) ==
    IF step = 1
    THEN LET r == ChunkSlice(c, i, j)
         IN  [kind |-> "DataChunk", base |-> r.base, bytes |-> r.bytes]
    ELSE NoValue

\* the chunks sliced: every start, every length from 0 on
SliceChunks ==
    { DataChunk(a, TagBytes(16, n)) : a \in 0..MaxAddr - 1, n \in 0..MaxLen }

\* start and stop indices on both sides of the ends of the chunk
SliceBounds == -(MaxLen + 1)..(MaxLen + 1)

SliceSteps == {1, 2, 3, -1, -2}

SliceInit ==
    /\ \E c \in SliceChunks : data = <<c>>
    /\ collision_error = TRUE
    /\ last = NoOp
    /\ pc = "chunk"
    /\ plan = [i |-> 0, j |-> 0, step |-> 1]
    /\ file = <<>>
    /\ rdata = NoValue

\* chunk[i:j:step]
Slice(i, j, step) ==
    /\ pc = "chunk"
    /\ rdata' = getitem(data[1], i, j, step)
    /\ plan' = [i |-> i, j |-> j, step |-> step]
    /\ pc' = "sliced"
    /\ UNCHANGED <<data, collision_error, last, file>>

SliceNext == \E i \in SliceBounds, j \in SliceBounds, step \in SliceSteps : Slice(i, j, step)

SpecSlice == SliceInit /\ [][SliceNext]_vars

\* the first index of the slice [i:j:step] of n elements, and the index
\* at which it stops, as Python normalises them
NormIndex(x, step, n) ==
    IF step > 0
    THEN (IF x < 0 THEN Max(x + n, 0) ELSE Min(x, n))
    ELSE (IF x < 0 THEN Max(x + n, -1) ELSE Min(x, n - 1))

\* the indices from a up to (down to) b, b excluded, in steps of step
RECURSIVE IndexRange(_, _, _)
IndexRange(a, b, step) ==
    IF (step > 0 /\ a >= b) \/ (step < 0 /\ a <= b) THEN <<>>
    ELSE <<a>> \o IndexRange(a + step, b, step)

\* the bytes the slice selects
Selected(bytes, i, j, step) ==
    LET n == Len(bytes)
        idx == IndexRange(NormIndex(i, step, n), NormIndex(j, step, n), step)
    IN  [k \in 1..Len(idx) |-> bytes[idx[k] + 1]]

\* C23: slicing a DataChunk with a unit-stride slice [i:j] returns a new
\* DataChunk whose base is the original base plus the normalised start index
\* and whose bytes are the selected bytes; slicing with any non-unit stride
\* returns a plain byte sequence holding the selected bytes, with no address
\* attached.
C23_SliceKinds ==
    pc = "sliced" =>
        /\ rdata.bytes = Selected(data[1].bytes, plan.i, plan.j, plan.step)
        /\ IF plan.step = 1
           THEN /\ rdata.kind = "DataChunk"
                /\ rdata.base = data[1].base + NormIndex(plan.i, 1, Len(data[1].bytes))
           ELSE rdata.kind = "bytearray"

\* the unit-stride half of it
C23_OnUnitStride ==
    (pc = "sliced" /\ plan.step = 1) =>
        /\ rdata.bytes = Selected(data[1].bytes, plan.i, plan.j, 1)
        /\ rdata.kind = "DataChunk"
        /\ rdata.base = data[1].base + NormIndex(plan.i, 1, Len(data[1].bytes))

----------------------------------------------------------------------------
(* Scenario 12 (SpecSrecMeta): SrecOutput writes a header and a start      *)
(* address, SrecInput reads them back                                      *)

\* header: none, or the bytes of "H", of "HDR" and a zero byte
MetaHeaders == {<<>>, <<72>>, <<72, 68, 82>>, <<0>>}

\* start_address: none, or addresses at and around the limits of 2, 3 and
\* 4 address bytes
MetaStarts == {None, 0, 1, 65535, 65536, 1193046, 16777215, 16777216, 2147483647}

MetaChunks == { DataChunk(a, ByteSeq(254, n)) : a \in {0, 65536}, n \in 1..MaxLen }

MetaInit ==
    /\ \E c \in MetaChunks : data = <<c>>
    /\ collision_error = TRUE
    /\ \E setting \in BOOLEAN :
         plan = [setting |-> setting, address_bytes |-> None, header |-> <<>>,
                 start_address |-> None]
    /\ last = NoOp
    /\ pc = "src"
    /\ file = [err |-> "", lines |-> <<>>]
    /\ rdata = SrecInput(<<>>, SrecDefaults, TRUE)

\* SrecOutput(sdata, filename, address_bytes=..., header=..., start_address=...)
MetaWrite(address_bytes, header, start_address) ==
    /\ pc = "src"
    /\ file' = SrecOutput(data, address_bytes, header, start_address, 32)
    /\ plan' = [plan EXCEPT !.address_bytes = address_bytes, !.header = header,
                            !.start_address = start_address]
    /\ pc' = "meta"
    /\ UNCHANGED <<data, collision_error, last, rdata>>

\* SrecInput(filename)
MetaRead ==
    /\ pc = "meta"
    /\ file.err = ""
    /\ rdata' = SrecInput(file.lines, SrecDefaults, plan.setting)
    /\ pc' = "metaread"
    /\ UNCHANGED <<data, collision_error, last, plan, file>>

MetaNext ==
    \/ \E address_bytes \in {None, 2, 3, 4}, header \in MetaHeaders,
          start_address \in MetaStarts :
          MetaWrite(address_bytes, header, start_address)
    \/ MetaRead

SpecSrecMeta == MetaInit /\ [][MetaNext]_vars

\* the bytes of line i of the file between the count and the checksum
MetaBlock(i) ==
    LET b == HexPairs(file.lines[i].hex)
    IN  SubSeq(b, 2, Len(b) - 1)

\* the value of a byte sequence read as a big-endian number
RECURSIVE BigEndianValue(_, _)
BigEndianValue(bytes, acc) ==
    IF bytes = <<>> THEN acc ELSE BigEndianValue(Tail(bytes), acc * 256 + Head(bytes))

\* C26: writing a space with SrecOutput and a non-empty header H emits one
\* S0 record whose payload after the two address bytes is exactly H, so that
\* SrecInput reading the file reports a header list with exactly one entry
\* equal to H.
C26_HeaderRoundTrip ==
    (pc \in {"meta", "metaread"} /\ file.err = "" /\ plan.header # <<>>) =>
        /\ Cardinality({ i \in 1..Len(file.lines) : file.lines[i].stype = 0 }) = 1
        /\ file.lines[1].stype = 0
        /\ SubSeq(MetaBlock(1), 3, Len(MetaBlock(1))) = plan.header
        /\ pc = "metaread" => rdata.header = <<plan.header>>

\* what is written and read back: one S0 record whose payload is the four
\* characters "0000" and then H
C26_HeaderAfterZeros ==
    (pc \in {"meta", "metaread"} /\ file.err = "" /\ plan.header # <<>>) =>
        /\ Cardinality({ i \in 1..Len(file.lines) : file.lines[i].stype = 0 }) = 1
        /\ file.lines[1].stype = 0
        /\ MetaBlock(1) = <<48, 48, 48, 48>> \o plan.header
        /\ pc = "metaread" => rdata.header = <<<<48, 48>> \o plan.header>>

\* the start address record is the last line, of type 7, 8 or 9, and holds
\* the start address given
StartAddressKept ==
    LET n == Len(file.lines)
    IN  /\ n > 0
        /\ file.lines[n].stype \in {7, 8, 9}
        /\ BigEndianValue(MetaBlock(n), 0) = plan.start_address
        /\ pc = "metaread" => rdata.startAddress = plan.start_address

\* C30: for every start_address >= 0 given to SrecOutput, the write either
\* emits an S7/S8/S9 record from which SrecInput reads back startAddress
\* equal to the supplied start_address, or fails; it never emits a start
\* address record that encodes a different address, including when
\* start_address does not fit in address_bytes bytes.
C30_StartAddressRoundTrip ==
    (pc \in {"meta", "metaread"} /\ plan.start_address # None) =>
        (file.err # "" \/ StartAddressKept)

\* the width the writer used
MetaWidth == AutoAddressBytes(data, plan.address_bytes)

\* the same for the start addresses that fit in the address bytes written
C30_OnFittingAddress ==
    (pc \in {"meta", "metaread"} /\ plan.start_address # None
        /\ plan.start_address \div 256 < Pow256(MetaWidth - 1)) =>
        (file.err # "" \/ StartAddressKept)

----------------------------------------------------------------------------
(* Scenario 13 (SpecMany): add is called with several regions at once *)

\* the k-th region of a call
ManyChunks(k) == { c \in CoreChunks(k) : end(c) <= MaxAddr }

\* the arguments of one call: two regions, or three with a last one of one byte
ManyArgs ==
    { <<c1, c2>> : c1 \in ManyChunks(1), c2 \in ManyChunks(2) }
        \cup { <<c1, c2, c3>> : c1 \in ManyChunks(1), c2 \in ManyChunks(2),
                                c3 \in { c \in ManyChunks(3) : Len(c.bytes) = 1 } }

\* the space before the call: empty, or one region
ManyInit ==
    /\ data \in {<<>>} \cup { <<c>> : c \in BaseChunks(1) }
    /\ collision_error \in BOOLEAN
    /\ last = NoOp
    /\ pc = "many"
    /\ plan = 0
    /\ file = <<>>
    /\ rdata = <<>>

\* sdata.add(*args), or sdata.add(args) with args a list: an argument that
\* is no DataChunk makes _addone raise TypeError before it touches the list,
\* and add then hands its elements to _addone one by one
AddSeveral(args) ==
    /\ pc = "many"
    /\ LET r == add(data, collision_error, args)
       IN  /\ data' = r.data
           /\ last' = [op |-> "addmany", chunk |-> DataChunk(0, <<>>), before |-> data,
                       ce |-> collision_error, err |-> r.err, key |-> args]
    /\ pc' = "added"
    /\ UNCHANGED <<collision_error, plan, file, rdata>>

ManyNext == \E args \in ManyArgs : AddSeveral(args)

SpecMany == ManyInit /\ [][ManyNext]_vars

\* C28: add called with several regions under collision_error True is all
\* or nothing: if inserting any of the regions raises CollisionError, the
\* region list is exactly what it was before the call, with none of the
\* earlier regions of that call left inserted.
C28_AddAllOrNothing ==
    (last.op = "addmany" /\ last.ce /\ last.err = "CollisionError")
        => data = last.before

\* the same when it is the first region of the call that collides
C28_OnFirstRegion ==
    (last.op = "addmany" /\ last.ce /\ last.err = "CollisionError"
        /\ ChunkAddrs(last.key[1]) \cap Addrs(last.before) # {})
        => data = last.before

----------------------------------------------------------------------------
(* Scenario 14 (SpecHexReuse): one HexInput reads several files in turn *)

\* the records of the files: a data record, an extended linear address
\* record, the two start records, the EOF record and a data record with a
\* wrong checksum
ReuseRecords ==
    { MkHex(1, 0, 0, <<170>>, 0), MkHex(2, 0, 4, <<0, 1>>, 0),
      MkHex(4, 0, 3, <<0, 1, 0, 2>>, 0), MkHex(4, 0, 5, <<0, 1, 0, 2>>, 0),
      MkHex(0, 0, 1, <<>>, 0), MkHex(1, 1, 0, <<187>>, 1) }

\* the files: up to two records
ReuseFiles ==
    {<<>>} \cup { <<r>> : r \in ReuseRecords }
           \cup { <<r1, r2>> : r1 \in ReuseRecords, r2 \in ReuseRecords }

\* reader = HexInput()
ReuseInit ==
    /\ \E setting \in BOOLEAN : plan = [opts |-> HexDefaults, setting |-> setting, n |-> 0]
    /\ rdata = HexNew
    /\ file = <<>>
    /\ data = <<>>
    /\ collision_error = TRUE
    /\ last = NoOp
    /\ pc = "reader"

\* reader.read(filename), the file holding the records given
ReadFile(records) ==
    /\ pc = "reader"
    /\ plan.n < MaxOps
    /\ rdata' = HexInput(rdata, records, plan.opts, plan.setting)
    /\ plan' = [plan EXCEPT !.n = @ + 1]
    /\ last' = [op |-> "read", chunk |-> DataChunk(0, <<>>), before |-> rdata,
                ce |-> plan.setting, err |-> rdata'.err, key |-> records]
    /\ UNCHANGED <<data, collision_error, file, pc>>

ReuseNext == \E records \in ReuseFiles : ReadFile(records)

SpecHexReuse == ReuseInit /\ [][ReuseNext]_vars

\* the file read last holds a start record (type 3 or 5) that was read
HasStartRecord(records) ==
    \E i \in 1..Len(records) : HexPairs(records[i])[4] \in {3, 5}

\* what a reader that has read nothing before makes of the file read last
FreshRead == HexInput(HexNew, last.key, plan.opts, plan.setting)

\* C29: every HexInput.read call starts from a clean parser state: base
\* address 0, end-of-file not seen, empty data, and no entry point; after
\* reading a file that contains a start-address record and then reading with
\* the same reader a file that contains none, the reader exposes no entry
\* point (startpc/startcs) left over from the first file, and no data or
\* base address from it either.
C29_ReadStartsClean ==
    last.op = "read" =>
        /\ rdata = FreshRead
        /\ ~HasStartRecord(last.key) => (rdata.startpc = None /\ rdata.startcs = None)

\* the same with the entry point left out
C29_OnParserState ==
    last.op = "read" =>
        /\ rdata.data = FreshRead.data
        /\ rdata.baseaddr = FreshRead.baseaddr
        /\ rdata.eof = FreshRead.eof
        /\ rdata.err = FreshRead.err

----------------------------------------------------------------------------
(* Claims about the merge engine, checked under Spec *)

\* what add(chunk) should leave populated: the chunk's cells, and the old
\* cells at every other address
Overwritten(before, chunk) ==
    ChunkCells(chunk) \cup { p \in Cells(before) : p[1] \notin ChunkAddrs(chunk) }

\* C1: after any sequence of successful adds (either policy) and deletions
\* from an empty space the region list is sorted strictly ascending, holds no
\* empty region, and consecutive regions neither overlap nor touch.
C1_RegionsWellFormed == WellFormed(data)

\* C2: with collision_error False, add(R) leaves populated exactly the old
\* addresses and R's range, R's bytes on R's range and the old byte
\* everywhere else, wherever R lies relative to the existing regions.
C2_OverwriteIsUnion ==
    (last.op = "add" /\ ~last.ce /\ WellFormed(last.before))
        => /\ last.err = ""
           /\ Cells(data) = Overwritten(last.before, last.chunk)

\* C3: with collision_error True, add(R) raises CollisionError and leaves the
\* list as it was when R shares an address with an existing region, and
\* never raises when R shares none.
C3_CollisionRaisedExactly ==
    (last.op = "add" /\ last.ce)
        => IF ChunkAddrs(last.chunk) \cap Addrs(last.before) # {}
           THEN last.err = "CollisionError" /\ data = last.before
           ELSE last.err = ""

\* the same on a space whose regions are well formed
C3_OnWellFormed ==
    (last.op = "add" /\ last.ce /\ WellFormed(last.before))
        => IF ChunkAddrs(last.chunk) \cap Addrs(last.before) # {}
           THEN last.err = "CollisionError" /\ data = last.before
           ELSE last.err = "" /\ Cells(data) = Overwritten(last.before, last.chunk)

\* C27: add never modifies the region object handed in by the caller:
\* after add(R) returns or raises, under either collision policy and for
\* every position of R relative to the existing regions, R's base address
\* and bytes are the same as before the call.
C27_ArgumentKept ==
    last.op = "add" => rdata = last.chunk

\* the same for the regions that share no address with an existing region
C27_OnNoOverlap ==
    (last.op = "add" /\ ChunkAddrs(last.chunk) \cap Addrs(last.before) = {})
        => rdata = last.chunk

====
